---- MODULE Spec2Model ----
(***************************************************************************)
(* Model of the AMMA video generation backend (src/backend/app):           *)
(*   - the metadata store (services/database.py, services/supabase.py),    *)
(*   - the orchestrator generate_video (routers/videos.py),                *)
(*   - the video provider client (services/video_generator.py).            *)
(* Strings are sequences of symbols; a symbol is a one-character string or *)
(* a token standing for one fixed literal of the source.                   *)
(***************************************************************************)
EXTENDS Integers, Sequences, FiniteSets, TLC

VARIABLES
  \* ---- metadata store (SupabaseService over LocalDatabase) ----
  reuse_case_enabled, \* SupabaseService.reuse_case_enabled (settings flag)
  patient_files,      \* table patient_files: sequence of rows, in rowid order
  now,                \* CURRENT_TIMESTAMP of the database, in whole seconds
  found,              \* last direct find_reusable_video call: [key, res]
  \* ---- orchestrator, one entry per in-flight request ----
  pc,                 \* position of each request inside generate_video
  req,                \* the request body
  case_key,           \* the case key computed for the request
  miss,               \* TRUE once the reuse lookup of the request found nothing
  resp,               \* the response of the request
  seeded,             \* number of rows the table held before the first request
  after,              \* per request, the requests already answered when it arrived
  \* ---- video provider client, one create_video call ----
  v_pc,               \* position inside create_video
  http_outcome,       \* how the submission POST came back ("none": not sent)
  sdk_videos,         \* hasattr(self._client, 'videos')
  via,                \* which submission path owns the current job
  job_id,             \* id of the job being polled (0: none)
  jobs,               \* number of jobs the provider has accepted so far
  attempt,            \* loop variable of _poll_for_video
  status_log,         \* per job, the status responses received, in order
  sleeps,             \* per job, number of asyncio.sleep(poll_interval) calls
  poll_result,        \* per job, how _poll_for_video ended
  cv_result,          \* how create_video ended
  tempfiles,          \* the temporary files _download_video_content left on disk
  cancelled,          \* TRUE once the task awaiting create_video was cancelled
  \* ---- StorageService and the part of generate_video that uses it ----
  db_use_supabase,    \* SupabaseService.use_supabase
  s_pc,               \* position inside upload_from_url
  s_source,           \* its argument source_url
  s_filename,         \* its local `filename`
  s_use_supabase,     \* StorageService.use_supabase
  s_result,           \* how upload_from_url ended
  uploads,            \* number of upload_from_url calls so far
  local_files,        \* files written under a local directory
  bucket_objects,     \* objects uploaded to the storage bucket
  public_url,         \* public_url of generate_video
  \* ---- compute_case_key applied to a pair of argument lists ----
  key_in,             \* the two argument lists
  key_out,            \* the two digests (<<>>: not computed yet)
  \* ---- recovery_plan: the two lookups applied to a day ----
  day,                \* the argument `day`
  plan,               \* what get_plan_for_day(day) returned
  prior,              \* what get_prior_plans(day) returned
  labels,             \* per schedule day, the milestone_label its table entry holds
  \* ---- one request from the request body to its prompt ----
  q_pc,               \* position: validation, payload, prompt
  body,               \* the JSON body posted to /videos/generate
  snapshot,           \* the latest epic_patient_data row of the patient
  payload,            \* what _context_to_prompt_payload returned
  prompt,             \* what build_prompt returned
  \* ---- one request from request_script to the reuse lookup ----
  r_pc,               \* position: completion call, parsing, case key
  llm_content,        \* response.choices[0].message.content
  script,             \* what request_script returned
  \* ---- the case keys of two requests with the same attributes ----
  ck_in,              \* the request and the two doctor records fetched
  ck_out,             \* the two case keys (<<>>: not computed yet)
  \* ---- the service objects of concurrent requests ----
  handler,            \* per request, where its handler stands
  connected,          \* per SupabaseService object, its _connected
  backend,            \* per StorageService object, the backend it uses
  first_tried         \* per request, the backend its upload tried first

storeVars == <<reuse_case_enabled, patient_files, now, found>>
genVars == <<pc, req, case_key, miss, resp, seeded, after>>
videoVars == <<v_pc, http_outcome, sdk_videos, via, job_id, jobs, attempt, status_log, sleeps,
               poll_result, cv_result, tempfiles, cancelled>>
storageVars == <<db_use_supabase, s_pc, s_source, s_filename, s_use_supabase, s_result,
                 uploads, local_files, bucket_objects, public_url>>
keyVars == <<key_in, key_out>>
planVars == <<day, plan, prior, labels>>
promptVars == <<q_pc, body, snapshot, payload, prompt>>
scriptVars == <<r_pc, llm_content, script>>
ckVars == <<ck_in, ck_out>>
frontVars == <<planVars, promptVars, scriptVars, ckVars>>
svcVars == <<handler, connected, backend, first_tried>>
vars == <<storeVars, genVars, videoVars, storageVars, keyVars, frontVars, svcVars>>

\* Python's None where a string is optional: a token no string consists of.
None == <<"None">>
\* None where a row (a dict) is optional.
NoRow == [id |-> 0]

-----------------------------------------------------------------------------
(* Bounds of the model                                                     *)

MaxRows == 3        \* rows the store may hold in SpecStore
MaxUploads == 2     \* upload_from_url calls in SpecPersist
MaxClock == 2       \* seconds the database clock may advance
MaxSeed == 2        \* rows already stored before the first request
NumRequests == 2    \* concurrent generate requests

Urls == {"u1", "u2"}
Requests == 1..NumRequests

-----------------------------------------------------------------------------
(* Strings and LLMService.compute_case_key                                 *)

LowerChar(c) == IF c = "A" THEN "a" ELSE c

\* str.lower()
Lower(s) == [i \in 1..Len(s) |-> LowerChar(s[i])]

RECURSIVE LStrip(_)
LStrip(s) == IF s # <<>> /\ Head(s) = " " THEN LStrip(Tail(s)) ELSE s

RECURSIVE RStrip(_)
RStrip(s) ==
  IF s # <<>> /\ s[Len(s)] = " " THEN RStrip(SubSeq(s, 1, Len(s) - 1)) ELSE s

\* str.strip()
Strip(s) == RStrip(LStrip(s))

\* `x or default` replacing None only.
OrElse_OnlyNone(s, default) == IF s = None THEN default ELSE s

\* Python's `x or default` for an optional string
OrElse(s, default) == IF s = None \/ s = <<>> THEN default ELSE s

\* ":".join(parts)
RECURSIVE Join(_)
Join(parts) ==
  IF Len(parts) = 0 THEN <<>>
  ELSE IF Len(parts) = 1 THEN parts[1]
  ELSE parts[1] \o <<":">> \o Join(Tail(parts))

\* hashlib.sha256(...).hexdigest(), taken as collision-free
Sha256Hex(s) == <<"sha256", s>>

\* compute_case_key with the specialty left out of the parts.
compute_case_key_NoSpecialty(diagnosis_code, procedure_code, recovery_milestone, doctor_specialty) ==
  LET parts == << OrElse(diagnosis_code, <<"unknown_diagnosis">>),
                  OrElse(procedure_code, <<"unknown_procedure">>),
                  OrElse(Strip(OrElse(recovery_milestone, <<>>)), <<"no_milestone">>) >>
      summary == Lower(Join(parts))
  IN  Sha256Hex(summary)

\* LLMService.compute_case_key
compute_case_key(diagnosis_code, procedure_code, recovery_milestone, doctor_specialty) ==
  LET parts == << OrElse(diagnosis_code, <<"unknown_diagnosis">>),
                  OrElse(procedure_code, <<"unknown_procedure">>),
                  OrElse(Strip(OrElse(recovery_milestone, <<>>)), <<"no_milestone">>),
                  OrElse(Strip(OrElse(doctor_specialty, <<>>)), <<"general">>) >>
      summary == Lower(Join(parts))
  IN  Sha256Hex(summary)

-----------------------------------------------------------------------------
(* The metadata store                                                      *)

\* The case keys the store model works with.
K1 == compute_case_key(<<"a">>, <<"b">>, None, None)
K2 == compute_case_key(<<"b">>, <<"b">>, None, None)
Keys == {K1, K2}

\* LocalDatabase.insert into patient_files: AUTOINCREMENT id, created_at
\* DEFAULT CURRENT_TIMESTAMP.
InsertRow(table, file_url, key, ts) ==
  Append(table, [id |-> Len(table) + 1, file_type |-> "video",
                 file_url |-> file_url, case_key |-> key, created_at |-> ts])

\* WHERE file_type = 'video' AND case_key = ?
Matching(table, key) ==
  {i \in 1..Len(table) : table[i].file_type = "video" /\ table[i].case_key = key}

\* ORDER BY created_at DESC LIMIT 1: the rows the query may return.  SQL leaves
\* the order of rows with equal created_at open.
FetchNewest(table, key) ==
  {table[i] : i \in {j \in Matching(table, key) :
      \A k \in Matching(table, key) : table[k].created_at <= table[j].created_at}}

\* find_reusable_video without the test of the flag.
find_reusable_video_NoFlag(enabled, table, key) ==
  IF FetchNewest(table, key) = {} THEN {NoRow} ELSE FetchNewest(table, key)

\* find_reusable_video with the test of the flag inverted.
find_reusable_video_Inverted(enabled, table, key) ==
  IF enabled THEN {NoRow}
  ELSE IF FetchNewest(table, key) = {} THEN {NoRow}
  ELSE FetchNewest(table, key)

\* SupabaseService.find_reusable_video: the set of values it may return.
find_reusable_video(enabled, table, key) ==
  IF ~enabled THEN {NoRow}
  ELSE IF FetchNewest(table, key) = {} THEN {NoRow}
  ELSE FetchNewest(table, key)

\* The database clock advances.
Tick ==
  /\ now < MaxClock
  /\ now' = now + 1
  /\ UNCHANGED <<reuse_case_enabled, patient_files, found, genVars, videoVars, storageVars, keyVars, frontVars, svcVars>>

\* SupabaseService.save_video_metadata called with a file URL and a case key.
SaveVideoMetadata ==
  /\ Len(patient_files) < MaxRows
  /\ \E u \in Urls, k \in Keys :
       patient_files' = InsertRow(patient_files, u, k, now)
  /\ UNCHANGED <<reuse_case_enabled, now, found, genVars, videoVars, storageVars, keyVars, frontVars, svcVars>>

\* SupabaseService.find_reusable_video called with a case key.
FindReusableVideo ==
  /\ \E k \in Keys :
       \E r \in find_reusable_video(reuse_case_enabled, patient_files, k) :
         found' = [key |-> k, res |-> r]
  /\ UNCHANGED <<reuse_case_enabled, patient_files, now, genVars, videoVars, storageVars, keyVars, frontVars, svcVars>>

-----------------------------------------------------------------------------
(* The orchestrator: routers/videos.py generate_video                      *)

\* Table users: the emails that have a record (no column holds a specialty,
\* so context.doctor.get("specialty") is None).
Users == {"doc", "pat"}
DoctorSpecialty(email) == None

\* The request bodies the model submits: a plain request, the same forced, one
\* for another diagnosis, and one for a patient without a record.
Body(patient, diagnosis, force) ==
  [doctor_email |-> "doc", patient_email |-> patient,
   diagnosis_code |-> diagnosis, procedure_code |-> <<"b">>,
   recovery_milestone |-> None, force_regenerate |-> force]

RequestBodies ==
  {Body("pat", <<"a">>, FALSE), Body("pat", <<"a">>, TRUE),
   Body("pat", <<"b">>, FALSE), Body("ghost", <<"a">>, FALSE)}

NoRequest == [force_regenerate |-> FALSE]
NoResponse == [kind |-> "none"]

\* An unhandled exception leaves the endpoint as an HTTP 500 response.
Failure(exc) == [kind |-> "error", exc |-> exc, status |-> 500]

VideoGenerationResponse(url, key, reused, id) ==
  [kind |-> "ok", video_url |-> url, case_key |-> key, reused |-> reused,
   metadata_id |-> id]

\* Keyword parameters of VideoGeneratorService.__init__ ...
InitParams == {"api_key", "model_name"}
\* ... and the keyword arguments get_video_service passes to it.
InitKwargs == {"api_key", "avatar_id", "voice_id", "ratio", "background",
               "poll_interval", "poll_timeout"}

\* get_video_service(): Python raises TypeError on an unexpected keyword.
get_video_service == IF InitKwargs \subseteq InitParams THEN "ok" ELSE "TypeError"

\* A request arrives.
Submit(p) ==
  /\ pc[p] = "idle"
  /\ \E r \in RequestBodies : req' = [req EXCEPT ![p] = r]
  /\ pc' = [pc EXCEPT ![p] = "fetch_context"]
  /\ after' = [after EXCEPT ![p] = {q \in Requests : pc[q] = "done"}]
  /\ UNCHANGED <<case_key, miss, resp, seeded, storeVars, videoVars, storageVars, keyVars, frontVars, svcVars>>

\* supabase_service.fetch_patient_context
FetchContext(p) ==
  /\ pc[p] = "fetch_context"
  /\ IF req[p].patient_email \notin Users \/ req[p].doctor_email \notin Users
       THEN /\ resp' = [resp EXCEPT ![p] = Failure("ValueError")]
            /\ pc' = [pc EXCEPT ![p] = "done"]
       ELSE /\ pc' = [pc EXCEPT ![p] = "request_script"]
            /\ UNCHANGED resp
  /\ UNCHANGED <<req, case_key, miss, seeded, after, storeVars, videoVars, storageVars, keyVars, frontVars, svcVars>>

\* build_prompt, request_script and compute_case_key; the text provider either
\* answers or raises.
RequestScript(p) ==
  /\ pc[p] = "request_script"
  /\ \/ /\ resp' = [resp EXCEPT ![p] = Failure("OpenAIError")]
        /\ pc' = [pc EXCEPT ![p] = "done"]
        /\ UNCHANGED case_key
     \/ /\ case_key' = [case_key EXCEPT ![p] =
             compute_case_key(req[p].diagnosis_code, req[p].procedure_code,
                              req[p].recovery_milestone,
                              DoctorSpecialty(req[p].doctor_email))]
        /\ pc' = [pc EXCEPT ![p] =
             IF req[p].force_regenerate THEN "video_service" ELSE "reuse_check"]
        /\ UNCHANGED resp
  /\ UNCHANGED <<req, miss, seeded, after, storeVars, videoVars, storageVars, keyVars, frontVars, svcVars>>

\* The reuse check saving a metadata row again for the video it reuses.
ReuseCheck_Saves(p) ==
  /\ pc[p] = "reuse_check"
  /\ \E r \in find_reusable_video(reuse_case_enabled, patient_files, case_key[p]) :
       IF r # NoRow
         THEN /\ resp' = [resp EXCEPT ![p] =
                   VideoGenerationResponse(r.file_url, case_key[p], TRUE, r.id)]
              /\ pc' = [pc EXCEPT ![p] = "done"]
              /\ patient_files' = InsertRow(patient_files, r.file_url, case_key[p], now)
              /\ UNCHANGED miss
         ELSE /\ miss' = [miss EXCEPT ![p] = TRUE]
              /\ pc' = [pc EXCEPT ![p] = "video_service"]
              /\ UNCHANGED <<resp, patient_files>>
  /\ UNCHANGED <<req, case_key, seeded, after, reuse_case_enabled, now, found,
                 videoVars, storageVars, keyVars, frontVars, svcVars>>

\* The reuse check looking only at the rows of the request's own patient.
ReuseCheck_OwnPatient(p) ==
  /\ pc[p] = "reuse_check"
  /\ \E r \in find_reusable_video(reuse_case_enabled,
                SelectSeq(patient_files, LAMBDA row : row.patient_email = req[p].patient_email),
                case_key[p]) :
       IF r # NoRow
         THEN /\ resp' = [resp EXCEPT ![p] =
                   VideoGenerationResponse(r.file_url, case_key[p], TRUE, r.id)]
              /\ pc' = [pc EXCEPT ![p] = "done"]
              /\ UNCHANGED miss
         ELSE /\ miss' = [miss EXCEPT ![p] = TRUE]
              /\ pc' = [pc EXCEPT ![p] = "video_service"]
              /\ UNCHANGED resp
  /\ UNCHANGED <<req, case_key, seeded, after, storeVars, videoVars, storageVars, keyVars, frontVars, svcVars>>

\* if not request.force_regenerate: reusable = find_reusable_video(case_key)
ReuseCheck(p) ==
  /\ pc[p] = "reuse_check"
  /\ \E r \in find_reusable_video(reuse_case_enabled, patient_files, case_key[p]) :
       IF r # NoRow
         THEN /\ resp' = [resp EXCEPT ![p] =
                   VideoGenerationResponse(r.file_url, case_key[p], TRUE, r.id)]
              /\ pc' = [pc EXCEPT ![p] = "done"]
              /\ UNCHANGED miss
         ELSE /\ miss' = [miss EXCEPT ![p] = TRUE]
              /\ pc' = [pc EXCEPT ![p] = "video_service"]
              /\ UNCHANGED resp
  /\ UNCHANGED <<req, case_key, seeded, after, storeVars, videoVars, storageVars, keyVars, frontVars, svcVars>>

\* video_service = get_video_service()
GetVideoService(p) ==
  /\ pc[p] = "video_service"
  /\ IF get_video_service = "ok"
       THEN /\ pc' = [pc EXCEPT ![p] = "create_video"]
            /\ UNCHANGED resp
       ELSE /\ resp' = [resp EXCEPT ![p] = Failure(get_video_service)]
            /\ pc' = [pc EXCEPT ![p] = "done"]
  /\ UNCHANGED <<req, case_key, miss, seeded, after, storeVars, videoVars, storageVars, keyVars, frontVars, svcVars>>

-----------------------------------------------------------------------------
(* The video provider client: services/video_generator.py                  *)

\* max_attempts of _poll_for_video (120 in the source), scaled down.
max_attempts == 3

\* A create_video call submits over HTTP first and through the SDK second.
JobIds == 1..2

ErrorDetails == {"quota exceeded"}

\* What one status request can come back with: a status (with the provider's
\* error detail when failed), or the request itself failing.
PollResponses ==
  [status : {"completed", "queued", "processing", "unrecognized", "request_error"},
   error : {"None"}]
  \cup [status : {"failed"}, error : ErrorDetails \cup {"None"}]

\* What the submission POST can come back with.
HttpOutcomes == {"401", "403", "400", "5xx", "network_error", "not_json",
                 "no_id", "no_id_url", "completed", "queued"}

\* The values a video reference or a public URL can take.
NoUrl == [kind |-> "none"]
\* data.get("video_url") or data.get("url") of a submission response
RemoteUrl == [kind |-> "remote"]
\* the placeholder URL of _create_mock_video
MockUrl == [kind |-> "mock"]
\* temp_file.name of the file _download_video_content wrote for job j
TempFile(j) == [kind |-> "tempfile", job |-> j]

NoResult == [kind |-> "none"]
Raise(exc, detail) == [kind |-> "raise", exc |-> exc, detail |-> detail]
Return(id, status, url, mock) ==
  [kind |-> "return", id |-> id, status |-> status, video_url |-> url, mock |-> mock]

\* error_text of a failed status: the provider's message, or "Unknown error".
ErrorText(error) == IF error = "None" THEN "Unknown error" ELSE error

FailedError(error) == Raise("RuntimeError", <<"Video generation failed", ErrorText(error)>>)
DownloadError == Raise("RuntimeError", <<"Failed to download video content">>)
TimedOut(j) == Raise("TimeoutError", <<"Video generation timed out for job", j>>)
RequestError == Raise("HTTPError", <<>>)

\* Where an exception leaving _poll_for_video or _download_video_content lands:
\* inside the HTTP attempt it is caught by `except Exception` and the SDK
\* method is tried; inside the SDK attempt it is wrapped in NotImplementedError,
\* which create_video catches to fall back to the mock.
Caught(path) == IF path = "http" THEN "sdk_create" ELSE "mock"

\* A failed status request always leaving the loop.
RetryRequest_Never(n) == FALSE

\* How the `except Exception` of the poll loop treats a failed status request.
RetryRequest(n) == n # max_attempts - 1

\* create_video is called.
CreateVideo ==
  /\ v_pc = "idle"
  /\ v_pc' = "http_post"
  /\ UNCHANGED <<http_outcome, sdk_videos, via, job_id, jobs, attempt, status_log, sleeps,
                 poll_result, cv_result, tempfiles, cancelled, storeVars, genVars, storageVars, keyVars, frontVars, svcVars>>

\* _create_sora_video: POST /v1/videos and the handling of its response.
HttpSubmit ==
  /\ v_pc = "http_post"
  /\ \E o \in HttpOutcomes :
     /\ http_outcome' = o
     /\ CASE o \in {"401", "403", "400", "not_json"} ->
              \* ValueError / NotImplementedError, re-raised to create_video
              /\ v_pc' = "mock"
              /\ UNCHANGED <<via, job_id, jobs, attempt, cv_result>>
         [] o \in {"5xx", "network_error"} ->
              /\ v_pc' = "sdk_create"
              /\ UNCHANGED <<via, job_id, jobs, attempt, cv_result>>
         [] o \in {"no_id", "no_id_url"} ->
              /\ cv_result' = Return("unknown", "queued",
                                     IF o = "no_id" THEN NoUrl ELSE RemoteUrl, FALSE)
              /\ v_pc' = "done"
              /\ UNCHANGED <<via, job_id, jobs, attempt>>
         [] OTHER ->
              /\ jobs' = jobs + 1
              /\ job_id' = jobs + 1
              /\ via' = "http"
              /\ attempt' = 0
              /\ v_pc' = IF o = "completed" THEN "download" ELSE "poll"
              /\ UNCHANGED cv_result
  /\ UNCHANGED <<sdk_videos, status_log, sleeps, poll_result, tempfiles, cancelled, storeVars, genVars, storageVars, keyVars, frontVars, svcVars>>

\* The SDK fallback of _create_sora_video: client.videos.create.
SdkCreate ==
  /\ v_pc = "sdk_create"
  /\ \E ok \in BOOLEAN :
       IF sdk_videos /\ ok
         THEN /\ jobs' = jobs + 1
              /\ job_id' = jobs + 1
              /\ via' = "sdk"
              /\ attempt' = 0
              /\ v_pc' = "poll"
         ELSE /\ v_pc' = "mock"
              /\ UNCHANGED <<via, job_id, jobs, attempt>>
  /\ UNCHANGED <<http_outcome, sdk_videos, status_log, sleeps, poll_result, cv_result,
                 tempfiles, cancelled, storeVars, genVars, storageVars, keyVars, frontVars, svcVars>>

\* The status test with the failed branch missing.
StatusBranch_NoFailed(status) ==
  IF status = "completed" THEN "completed" ELSE "continue"

\* The branch of the poll loop a status selects.
StatusBranch(status) ==
  IF status = "completed" THEN "completed"
  ELSE IF status = "failed" THEN "failed"
  ELSE "continue"

\* One iteration of _poll_for_video up to its sleep: the status request.
Poll ==
  /\ v_pc = "poll"
  /\ \E r \in PollResponses :
       /\ status_log' = [status_log EXCEPT ![job_id] = Append(@, r)]
       /\ CASE r.status = "request_error" /\ RetryRequest(attempt) ->
                 /\ v_pc' = "sleep"
                 /\ UNCHANGED poll_result
            [] r.status = "request_error" /\ ~RetryRequest(attempt) ->
                 /\ poll_result' = [poll_result EXCEPT ![job_id] = RequestError]
                 /\ v_pc' = Caught(via)
            [] r.status # "request_error" /\ StatusBranch(r.status) = "completed" ->
                 /\ v_pc' = "download"
                 /\ UNCHANGED poll_result
            [] r.status # "request_error" /\ StatusBranch(r.status) = "failed" ->
                 /\ poll_result' = [poll_result EXCEPT ![job_id] = FailedError(r.error)]
                 /\ v_pc' = Caught(via)
            [] OTHER ->
                 /\ v_pc' = "sleep"
                 /\ UNCHANGED poll_result
  /\ UNCHANGED <<http_outcome, sdk_videos, via, job_id, jobs, attempt, sleeps, cv_result,
                 tempfiles, cancelled, storeVars, genVars, storageVars, keyVars, frontVars, svcVars>>

\* The poll loop going round for ever.
HasNext_Always(n) == TRUE

\* for attempt in range(max_attempts): another iteration follows attempt n.
HasNext(n) == n + 1 < max_attempts

\* await asyncio.sleep(poll_interval), then the next iteration or the end of
\* the loop.
Sleep ==
  /\ v_pc = "sleep"
  /\ sleeps' = [sleeps EXCEPT ![job_id] = @ + 1]
  /\ attempt' = attempt + 1
  /\ IF HasNext(attempt)
       THEN /\ v_pc' = "poll"
            /\ UNCHANGED poll_result
       ELSE /\ poll_result' = [poll_result EXCEPT ![job_id] = TimedOut(job_id)]
            /\ v_pc' = Caught(via)
  /\ UNCHANGED <<http_outcome, sdk_videos, via, job_id, jobs, status_log, cv_result,
                 tempfiles, cancelled, storeVars, genVars, storageVars, keyVars, frontVars, svcVars>>

\* _download_video_content for a completed job.  It fails while fetching the
\* content ("fetch_error"), or after NamedTemporaryFile(delete=False) created
\* the file, while writing to it ("write_error"), or it returns the file's path.
DownloadOutcomes == {"ok", "fetch_error", "write_error"}

Download ==
  /\ v_pc = "download"
  /\ \E o \in DownloadOutcomes :
       LET polled == status_log[job_id] # <<>>
           res == IF o = "ok" THEN Return(job_id, "completed", TempFile(job_id), FALSE)
                  ELSE DownloadError
       IN  /\ poll_result' = IF polled THEN [poll_result EXCEPT ![job_id] = res]
                             ELSE poll_result
           /\ tempfiles' = IF o = "fetch_error" THEN tempfiles
                           ELSE tempfiles \cup {TempFile(job_id)}
           /\ IF o = "ok" THEN /\ cv_result' = res
                               /\ v_pc' = "done"
              ELSE /\ v_pc' = Caught(via)
                   /\ UNCHANGED cv_result
  /\ UNCHANGED <<http_outcome, sdk_videos, via, job_id, jobs, attempt, status_log, sleeps,
                 cancelled, storeVars, genVars, storageVars, keyVars, frontVars, svcVars>>

\* isinstance(exc, Exception) with CancelledError taken for an Exception.
IsException_All(exc) == TRUE

\* isinstance(exc, Exception): asyncio.CancelledError derives from
\* BaseException, every other exception the client meets from Exception.
IsException(exc) == exc # "CancelledError"

\* The task awaiting create_video is cancelled while _poll_for_video awaits a
\* status request or its sleep: CancelledError is raised at that await.  An
\* exception that `except Exception` catches is handled like a failed status
\* request; one it does not catch leaves _poll_for_video, _create_sora_video
\* and create_video.
Cancel ==
  /\ v_pc \in {"poll", "sleep"}
  /\ cancelled' = TRUE
  /\ IF IsException("CancelledError")
       THEN IF RetryRequest(attempt)
              THEN /\ v_pc' = "sleep"
                   /\ UNCHANGED <<poll_result, cv_result>>
              ELSE /\ poll_result' = [poll_result EXCEPT ![job_id] = RequestError]
                   /\ v_pc' = Caught(via)
                   /\ UNCHANGED cv_result
       ELSE /\ cv_result' = Raise("CancelledError", <<>>)
            /\ v_pc' = "cancelled"
            /\ UNCHANGED poll_result
  /\ UNCHANGED <<http_outcome, sdk_videos, via, job_id, jobs, attempt, status_log, sleeps,
                 tempfiles, storeVars, genVars, storageVars, keyVars, frontVars, svcVars>>

\* _create_mock_video, reached from the `except` of create_video.
MockVideo ==
  /\ v_pc = "mock"
  /\ cv_result' = Return("mock_video", "completed", MockUrl, TRUE)
  /\ v_pc' = "done"
  /\ UNCHANGED <<http_outcome, sdk_videos, via, job_id, jobs, attempt, status_log, sleeps,
                 poll_result, tempfiles, cancelled, storeVars, genVars, storageVars, keyVars, frontVars, svcVars>>

-----------------------------------------------------------------------------
(* Storage: services/storage.py, and generate_video from the return of     *)
(* create_video to the response                                            *)

\* settings.storage_bucket, by default
storage_bucket == "patient-files"
\* The directory main.py mounts at /storage (when it exists at start-up; the
\* model takes it to exist).
storage_path == "storage"
\* storage_dir= of the StorageService that generate_video constructs
storage_dir == storage_bucket

\* The file name without its uuid part.
FileName_KeyOnly(key, n) == [stem |-> key, uuid |-> 1]

\* f"{case_key}-{uuid.uuid4().hex}.mp4"; the n-th uuid4() is the number n.
FileName(key, n) == [stem |-> key, uuid |-> n]
demo_video == [stem |-> <<"demo_video">>, uuid |-> 0]

\* f"/storage/videos/{filename}"
LocalUrl(filename) == [kind |-> "local", name |-> filename]
\* get_public_url(f"videos/{filename}")
BucketUrl(filename) == [kind |-> "bucket", name |-> filename]
\* The file dir/videos/filename
LocalFile(dir, filename) == [dir |-> dir, name |-> filename]
\* The file the StaticFiles mount answers a GET of a /storage/videos/ URL with.
StaticFile(url) == LocalFile(storage_path, url.name)

\* client.get(source_url) followed by raise_for_status(): httpx requests http
\* and https URLs only, every other reference raises UnsupportedProtocol.
FetchOutcomes(source) ==
  IF source.kind = "remote" THEN {"ok", "HTTPStatusError"} ELSE {"UnsupportedProtocol"}

\* The upload to the bucket and the request for its public URL.
UploadOutcomes == {"ok", "upload_error", "public_url_error"}

Stored(url) == [kind |-> "return", url |-> url]

StorageIdle ==
  /\ s_pc = "idle"
  /\ s_source = NoUrl
  /\ s_filename = demo_video
  /\ s_use_supabase = FALSE
  /\ s_result = NoResult
  /\ uploads = 0
  /\ local_files = {}
  /\ bucket_objects = {}
  /\ public_url = NoUrl

\* StorageService(storage_dir=..., supabase_client=...) as generate_video
\* constructs it, and upload_from_url(source, case_key=key) up to its request.
StorageCall(source, key) ==
  /\ s_use_supabase' = db_use_supabase
  /\ s_source' = source
  /\ s_filename' = FileName(key, uploads + 1)
  /\ uploads' = uploads + 1
  /\ s_result' = NoResult
  /\ s_pc' = "fetch"

\* A caller persists a video reference the provider client can return.
Persist ==
  /\ s_pc \in {"idle", "done"}
  /\ uploads < MaxUploads
  /\ \E source \in {RemoteUrl} \cup tempfiles, k \in Keys : StorageCall(source, k)
  /\ UNCHANGED <<db_use_supabase, local_files, bucket_objects, public_url,
                 storeVars, genVars, videoVars, keyVars, frontVars, svcVars>>

\* upload_from_url: the download of the source.
StorageFetch ==
  /\ s_pc = "fetch"
  /\ \E o \in FetchOutcomes(s_source) :
       IF o = "ok"
         THEN /\ s_pc' = IF s_use_supabase THEN "upload" ELSE "write"
              /\ UNCHANGED s_result
         ELSE /\ s_result' = Raise(o, <<>>)
              /\ s_pc' = "done"
  /\ UNCHANGED <<db_use_supabase, s_source, s_filename, s_use_supabase, uploads, local_files,
                 bucket_objects, public_url, storeVars, genVars, videoVars, keyVars, frontVars, svcVars>>

\* upload_from_url: `if self.use_supabase:` with its try/except.
StorageUpload ==
  /\ s_pc = "upload"
  /\ \E o \in UploadOutcomes :
       /\ bucket_objects' = IF o = "upload_error" THEN bucket_objects
                            ELSE bucket_objects \cup {s_filename}
       /\ IF o = "ok"
            THEN /\ s_result' = Stored(BucketUrl(s_filename))
                 /\ s_pc' = "done"
                 /\ UNCHANGED s_use_supabase
            ELSE /\ s_use_supabase' = FALSE
                 /\ s_pc' = "write"
                 /\ UNCHANGED s_result
  /\ UNCHANGED <<db_use_supabase, s_source, s_filename, uploads, local_files, public_url,
                 storeVars, genVars, videoVars, keyVars, frontVars, svcVars>>

\* upload_from_url: the local write and the URL returned for it.
StorageWrite ==
  /\ s_pc = "write"
  /\ local_files' = local_files \cup {LocalFile(storage_dir, s_filename)}
  /\ s_result' = Stored(LocalUrl(s_filename))
  /\ s_pc' = "done"
  /\ UNCHANGED <<db_use_supabase, s_source, s_filename, s_use_supabase, uploads,
                 bucket_objects, public_url, storeVars, genVars, videoVars, keyVars, frontVars, svcVars>>

\* raise HTTPException(status_code=...)
HTTPException(status_code) == [kind |-> "error", exc |-> "HTTPException", status |-> status_code]

\* `if not output_url` never taken.
MissingUrl_Never(video_payload) == FALSE

\* `if not output_url`, output_url being video_payload.get("video_url")
MissingUrl(video_payload) == video_payload.video_url = NoUrl

\* generate_video once create_video has returned: the check of the video
\* reference, the mock branch, and the start of the upload.
VideoReturned(p) ==
  /\ pc[p] = "create_video"
  /\ v_pc = "done"
  /\ cv_result.kind = "return"
  /\ IF MissingUrl(cv_result)
       THEN /\ resp' = [resp EXCEPT ![p] = HTTPException(502)]
            /\ pc' = [pc EXCEPT ![p] = "done"]
            /\ UNCHANGED storageVars
       ELSE IF cv_result.mock
       THEN /\ local_files' = IF db_use_supabase THEN local_files
                              ELSE local_files \cup {LocalFile(storage_dir, demo_video)}
            /\ public_url' = LocalUrl(demo_video)
            /\ pc' = [pc EXCEPT ![p] = "save"]
            /\ UNCHANGED <<resp, db_use_supabase, s_pc, s_source, s_filename, s_use_supabase,
                           s_result, uploads, bucket_objects>>
       ELSE /\ StorageCall(cv_result.video_url, case_key[p])
            /\ pc' = [pc EXCEPT ![p] = "upload"]
            /\ UNCHANGED <<resp, db_use_supabase, local_files, bucket_objects, public_url>>
  /\ UNCHANGED <<req, case_key, miss, seeded, after, storeVars, videoVars, keyVars, frontVars, svcVars>>

\* public_url = await storage_service.upload_from_url(...): its return or raise.
UploadReturned(p) ==
  /\ pc[p] = "upload"
  /\ s_pc = "done"
  /\ IF s_result.kind = "raise"
       THEN /\ resp' = [resp EXCEPT ![p] = Failure(s_result.exc)]
            /\ pc' = [pc EXCEPT ![p] = "done"]
            /\ UNCHANGED public_url
       ELSE /\ public_url' = s_result.url
            /\ pc' = [pc EXCEPT ![p] = "save"]
            /\ UNCHANGED resp
  /\ UNCHANGED <<req, case_key, miss, seeded, after, db_use_supabase, s_pc, s_source,
                 s_filename, s_use_supabase, s_result, uploads, local_files, bucket_objects,
                 storeVars, videoVars, keyVars, frontVars, svcVars>>

\* save_video_metadata and the response of a generation.
SaveAndRespond(p) ==
  /\ pc[p] = "save"
  /\ patient_files' = InsertRow(patient_files, public_url, case_key[p], now)
  /\ resp' = [resp EXCEPT ![p] =
        VideoGenerationResponse(public_url, case_key[p], FALSE, Len(patient_files) + 1)]
  /\ pc' = [pc EXCEPT ![p] = "done"]
  /\ UNCHANGED <<req, case_key, miss, seeded, after, reuse_case_enabled, now, found,
                 videoVars, storageVars, keyVars, frontVars, svcVars>>

-----------------------------------------------------------------------------
(* compute_case_key applied to argument lists                              *)

Arguments(d, p, m, s) ==
  [diagnosis_code |-> d, procedure_code |-> p, recovery_milestone |-> m,
   doctor_specialty |-> s]

\* The argument values tried: empty and missing values, values differing in
\* case or in surrounding blanks, and the placeholder literals themselves.
DiagnosisCodes == {None, <<>>, <<"a">>, <<"A">>, <<"unknown_diagnosis">>}
ProcedureCodes == {None, <<>>, <<"b">>, <<"unknown_procedure">>}
Milestones == {None, <<>>, <<"m">>, <<" ", "m">>, <<"no_milestone">>}
Specialties == {None, <<>>, <<"g">>, <<"g", " ">>, <<"general">>}

ArgumentLists ==
  {Arguments(d, p, m, s) :
     d \in DiagnosisCodes, p \in ProcedureCodes, m \in Milestones, s \in Specialties}

Fields == {"diagnosis_code", "procedure_code", "recovery_milestone", "doctor_specialty"}

\* The fields in which two argument lists differ.
Changed(a, b) == {f \in Fields : a[f] # b[f]}

KeyOf(a) ==
  compute_case_key(a.diagnosis_code, a.procedure_code, a.recovery_milestone,
                   a.doctor_specialty)

KeyIdle ==
  /\ key_in = <<>>
  /\ key_out = <<>>

\* compute_case_key is called with each of the two argument lists.
ComputeCaseKeys ==
  /\ key_in # <<>>
  /\ key_out = <<>>
  /\ key_out' = <<KeyOf(key_in[1]), KeyOf(key_in[2])>>
  /\ UNCHANGED <<key_in, storeVars, genVars, videoVars, storageVars, frontVars, svcVars>>

-----------------------------------------------------------------------------
(* services/recovery_plan.py                                               *)

\* Largest day the lookups are applied to.
MaxDay == 32

\* The days the lookups are applied to: the schedule, the days between its
\* entries, and days on either side of it.
DayInputs == (0 - 2)..MaxDay

\* The keys of PLAN_DEFINITIONS.
PlanDays == {1, 3, 5, 7, 10, 14, 17, 21, 24, 30}

PlanTitle(d) ==
  CASE d = 1 -> "Initial Assessment & Care"
    [] d = 3 -> "Early Progress Check"
    [] d = 5 -> "Medication & Wound Review"
    [] d = 7 -> "First Week Milestone"
    [] d = 10 -> "Pain Management & PT Intro"
    [] d = 14 -> "Two-Week Checkpoint"
    [] d = 17 -> "Mid-Recovery Reset"
    [] d = 21 -> "Three-Week Progress"
    [] d = 24 -> "Advanced Exercises"
    [] OTHER -> "Graduation & Long-Term Plan"

\* asdict(RecoveryDayPlan(...)): the day and the title; description, focus and
\* checklist are fixed texts that go wherever the title goes.
PLAN_DEFINITIONS == [d \in PlanDays |-> [day |-> d, title |-> PlanTitle(d)]]

\* None where a plan is optional, and the value of a call not made yet.
NoPlan == [kind |-> "None"]
Pending == [kind |-> "pending"]

\* get_plan_for_day falling back to the nearest earlier entry.
get_plan_for_day_Nearest(d) ==
  IF \E k \in DOMAIN PLAN_DEFINITIONS : k <= d
    THEN PLAN_DEFINITIONS[CHOOSE k \in DOMAIN PLAN_DEFINITIONS :
            k <= d /\ \A j \in DOMAIN PLAN_DEFINITIONS : j <= d => j <= k]
    ELSE NoPlan

\* PLAN_DEFINITIONS.get(day), as a dict or None
get_plan_for_day(d) ==
  IF d \in DOMAIN PLAN_DEFINITIONS THEN PLAN_DEFINITIONS[d] ELSE NoPlan

\* sorted(...) of a set of integers
RECURSIVE sorted(_)
sorted(S) ==
  IF S = {} THEN <<>>
  ELSE LET m == CHOOSE x \in S : \A y \in S : x <= y
       IN  <<m>> \o sorted(S \ {m})

\* get_prior_plans keeping the day itself.
get_prior_plans_Inclusive(d) ==
  LET keys == sorted(DOMAIN PLAN_DEFINITIONS)
      prior_days == SelectSeq(keys, LAMBDA k : k <= d)
  IN  [i \in 1..Len(prior_days) |-> PLAN_DEFINITIONS[prior_days[i]]]

\* [d for d in sorted(PLAN_DEFINITIONS.keys()) if d < day], as dicts
get_prior_plans(d) ==
  LET keys == sorted(DOMAIN PLAN_DEFINITIONS)
      prior_days == SelectSeq(keys, LAMBDA k : k < d)
  IN  [i \in 1..Len(prior_days) |-> PLAN_DEFINITIONS[prior_days[i]]]

\* The table as the module defines it: RecoveryDayPlan has no milestone_label.
NoLabels == [d \in PlanDays |-> None]

PlanIdle ==
  /\ day = 0
  /\ plan = Pending
  /\ prior = <<Pending>>
  /\ labels = NoLabels

\* get_plan_for_day(day) is called.
GetPlanForDay ==
  /\ plan = Pending
  /\ plan' = get_plan_for_day(day)
  /\ UNCHANGED <<day, prior, labels, promptVars, scriptVars, ckVars,
                 storeVars, genVars, videoVars, storageVars, keyVars, svcVars>>

\* get_prior_plans(day) is called.
GetPriorPlans ==
  /\ prior = <<Pending>>
  /\ prior' = get_prior_plans(day)
  /\ UNCHANGED <<day, plan, labels, promptVars, scriptVars, ckVars,
                 storeVars, genVars, videoVars, storageVars, keyVars, svcVars>>

\* get_plan_for_day handing out the entry of the table itself.
asdict_Same(d) == [day |-> d, object |-> "table"]

\* asdict(plan) of get_plan_for_day: the caller gets a dict of its own.
asdict(d) == [day |-> d, object |-> "new"]

\* recovery_details["milestone_label"] = request.recovery_milestone, for a
\* request with a milestone whose day has a plan: the assignment goes to the
\* object get_plan_for_day handed out.
AttachLabel ==
  /\ plan \notin {Pending, NoPlan}
  /\ "milestone_label" \notin DOMAIN plan
  /\ \E m \in {<<"m">>, <<"w">>} :
       /\ plan' = [f \in DOMAIN plan \cup {"milestone_label"} |->
                     IF f = "milestone_label" THEN m ELSE plan[f]]
       /\ labels' = IF asdict(day).object = "table"
                      THEN [labels EXCEPT ![day] = m]
                      ELSE labels
  /\ UNCHANGED <<day, prior, promptVars, scriptVars, ckVars,
                 storeVars, genVars, videoVars, storageVars, keyVars, svcVars>>

\* The request is over and the next one arrives, with its own recovery day.
NextRequest ==
  /\ plan # Pending
  /\ prior # <<Pending>>
  /\ day' \in DayInputs
  /\ plan' = Pending
  /\ prior' = <<Pending>>
  /\ UNCHANGED <<labels, promptVars, scriptVars, ckVars,
                 storeVars, genVars, videoVars, storageVars, keyVars, svcVars>>

-----------------------------------------------------------------------------
(* The service objects of a request: dependencies.get_supabase_service,    *)
(* SupabaseService._connected, StorageService.use_supabase                 *)

\* One service object shared by all requests.
Instance_Shared(p) == 1

\* get_supabase_service constructs a SupabaseService on every call and
\* generate_video a StorageService on every call: the objects of request p.
Instance(p) == p

SvcIdle ==
  /\ handler = [p \in Requests |-> "idle"]
  /\ connected = [p \in Requests |-> FALSE]
  /\ backend = [p \in Requests |-> "none"]
  /\ first_tried = [p \in Requests |-> "none"]

\* get_supabase_service: SupabaseService(...) for a request that arrives.
GetSupabaseService(p) ==
  /\ handler[p] \in {"idle", "closed"}
  /\ handler' = [handler EXCEPT ![p] = "open"]
  /\ connected' = [connected EXCEPT ![Instance(p)] = FALSE]
  /\ backend' = [backend EXCEPT ![Instance(p)] = "none"]
  /\ first_tried' = [first_tried EXCEPT ![p] = "none"]
  /\ UNCHANGED <<storeVars, genVars, videoVars, storageVars, keyVars, frontVars>>

\* _ensure_connected, on the request's first database call.
EnsureConnected(p) ==
  /\ handler[p] = "open"
  /\ ~connected[Instance(p)]
  /\ connected' = [connected EXCEPT ![Instance(p)] = TRUE]
  /\ UNCHANGED <<handler, backend, first_tried,
                 storeVars, genVars, videoVars, storageVars, keyVars, frontVars>>

\* StorageService(..., supabase_client=supabase_service.client if
\* supabase_service.use_supabase else None): use_supabase is set from it.
NewStorageService(p) ==
  /\ handler[p] = "open"
  /\ connected[Instance(p)]
  /\ first_tried[p] = "none"
  /\ backend' = [backend EXCEPT ![Instance(p)] =
                   IF db_use_supabase THEN "supabase" ELSE "local"]
  /\ UNCHANGED <<handler, connected, first_tried,
                 storeVars, genVars, videoVars, storageVars, keyVars, frontVars>>

\* upload_from_url after its download: the backend it tries, and the switch
\* to local storage when the Supabase upload raises.
TryUpload(p) ==
  /\ handler[p] = "open"
  /\ backend[Instance(p)] # "none"
  /\ first_tried[p] = "none"
  /\ first_tried' = [first_tried EXCEPT ![p] = backend[Instance(p)]]
  /\ \E raised \in BOOLEAN :
       backend' = [backend EXCEPT ![Instance(p)] =
                     IF @ = "supabase" /\ raised THEN "local" ELSE @]
  /\ UNCHANGED <<handler, connected,
                 storeVars, genVars, videoVars, storageVars, keyVars, frontVars>>

\* The `finally` of get_supabase_service: service.close().
Close(p) ==
  /\ handler[p] = "open"
  /\ handler' = [handler EXCEPT ![p] = "closed"]
  /\ connected' = [connected EXCEPT ![Instance(p)] = FALSE]
  /\ UNCHANGED <<backend, first_tried,
                 storeVars, genVars, videoVars, storageVars, keyVars, frontVars>>

\* What request p does with its service objects.
ServiceStep(p) ==
  \/ GetSupabaseService(p)
  \/ EnsureConnected(p)
  \/ NewStorageService(p)
  \/ TryUpload(p)
  \/ Close(p)

-----------------------------------------------------------------------------
(* From the request body to the prompt: models/requests.py,                *)
(* fetch_patient_context, _context_to_prompt_payload, build_prompt         *)

\* Longest diagnoses or medications list of a snapshot.
MaxEntries == 2

\* JSON values posted as recovery_day: absent or null, an integer, or a value
\* that is no integer.
NoDay == [kind |-> "None"]
NotAnInteger == [kind |-> "text"]
IntDay(n) == [kind |-> "int", value |-> n]
RecoveryDayValues == {NoDay, NotAnInteger} \cup {IntDay(n) : n \in DayInputs}

RequestFields(recovery_day, recovery_milestone) ==
  [recovery_day |-> recovery_day, recovery_milestone |-> recovery_milestone]

PostedBodies ==
  {RequestFields(d, m) : d \in RecoveryDayValues, m \in {None, <<"m">>}}

\* recovery_day: Optional[int] = Field(default=None, description=...)
Accepts(b) == b.recovery_day.kind \in {"None", "int"}

\* Truth value of request.recovery_day in `if request.recovery_day:`
Truthy(recovery_day) == recovery_day.kind = "int" /\ recovery_day.value # 0

\* Entries of the diagnoses and medications lists: the value under "display"
\* or "name" is a name, an empty string, or missing.
DiagnosisEntries == {[display |-> v] : v \in {None, <<>>, <<"flu">>}}
MedicationEntries == {[name |-> v] : v \in {None, <<>>, <<"aspirin">>}}

RECURSIVE SeqsUpTo(_, _)
SeqsUpTo(S, n) ==
  IF n = 0 THEN {<<>>}
  ELSE LET shorter == SeqsUpTo(S, n - 1)
       IN  shorter \cup {Append(q, x) : q \in {y \in shorter : Len(y) = n - 1}, x \in S}

\* What a TEXT column of epic_patient_data can hold: NULL, the empty string,
\* a text that is not JSON, or a JSON list of entries.
ColumnValues(entries) ==
  {[kind |-> "null"], [kind |-> "empty"], [kind |-> "invalid"]}
    \cup {[kind |-> "list", entries |-> q] : q \in SeqsUpTo(entries, MaxEntries)}

NoSnapshot == [kind |-> "None"]
Snapshots ==
  {NoSnapshot}
    \cup {[kind |-> "row", diagnoses |-> d, medications |-> m] :
            d \in ColumnValues(DiagnosisEntries), m \in ColumnValues(MedicationEntries)}

\* fetch_patient_context: a truthy column is parsed, [] when it is not JSON; a
\* falsy one (NULL or '') is left as it is.
ParseColumn(c) ==
  IF c.kind = "invalid" THEN [kind |-> "list", entries |-> <<>>] ELSE c

epic_snapshot(row) ==
  IF row.kind = "None" THEN row
  ELSE [kind |-> "row", diagnoses |-> ParseColumn(row.diagnoses),
        medications |-> ParseColumn(row.medications)]

\* `for entry in <column>` raises TypeError on None; '' has no characters.
Iterable(c) == c.kind # "null"
Elements(c) == IF c.kind = "list" THEN c.entries ELSE <<>>

\* [entry.get(field) for entry in ...] followed by list(filter(None, ...))
Values(c, field) == [i \in 1..Len(Elements(c)) |-> Elements(c)[i][field]]
Filtered(names) == SelectSeq(names, LAMBDA v : v # None /\ v # <<>>)

\* sep.join(parts)
RECURSIVE JoinSep(_, _)
JoinSep(sep, parts) ==
  IF Len(parts) = 0 THEN <<>>
  ELSE IF Len(parts) = 1 THEN parts[1]
  ELSE parts[1] \o sep \o JoinSep(sep, Tail(parts))

TypeErrorRaised == [kind |-> "raise", exc |-> "TypeError"]

\* _context_to_prompt_payload(context, request)
context_to_prompt_payload(snap, request) ==
  IF snap.kind = "row" /\ ~(Iterable(snap.diagnoses) /\ Iterable(snap.medications))
    THEN TypeErrorRaised
  ELSE
    [kind |-> "payload",
     diagnoses |-> IF snap.kind = "row"
                     THEN Filtered(Values(snap.diagnoses, "display")) ELSE <<>>,
     medications |-> IF snap.kind = "row"
                       THEN Filtered(Values(snap.medications, "name")) ELSE <<>>,
     recovery_plan |-> IF Truthy(request.recovery_day)
                         THEN get_plan_for_day(request.recovery_day.value) ELSE NoPlan,
     prior_recovery_context |-> IF Truthy(request.recovery_day)
                                  THEN get_prior_plans(request.recovery_day.value)
                                  ELSE <<>>,
     recovery_milestone |-> request.recovery_milestone]

\* f"Day {item.get('day')}: {item.get('title')}"
Summary(item) == <<"Day ", ToString(item.day), ": ", item.title>>

\* build_prompt without `if prior_recovery:`, the block always appended.
build_prompt_AlwaysPrior(context) ==
  LET diagnoses_text == OrElse(JoinSep(<<", ">>, context.diagnoses), <<"Not specified">>)
      medications_text ==
        OrElse(JoinSep(<<", ">>, context.medications), <<"No active medications listed">>)
      recovery_plan == context.recovery_plan
      prior_recovery == context.prior_recovery_context
      summaries == [i \in 1..Len(prior_recovery) |-> Summary(prior_recovery[i])]
  IN  <<"storyboard", "Diagnoses: ">> \o diagnoses_text
        \o <<"\n", "Medications: ">> \o medications_text \o <<"\n">>
        \o (IF recovery_plan # NoPlan
              THEN <<"Today's recovery milestone (Day ", ToString(recovery_plan.day), "): ",
                     recovery_plan.title, "Milestone label: ">>
                   \o OrElse(context.recovery_milestone, <<recovery_plan.title>>)
              ELSE <<>>)
        \o <<"Previous recovery context that must be referenced for continuity:">>
        \o JoinSep(<<"; ">>, summaries)

\* LLMService.build_prompt: the storyboard, the lines that depend on the
\* context, and the two recovery blocks.
build_prompt(context) ==
  LET diagnoses_text == OrElse(JoinSep(<<", ">>, context.diagnoses), <<"Not specified">>)
      medications_text ==
        OrElse(JoinSep(<<", ">>, context.medications), <<"No active medications listed">>)
      recovery_plan == context.recovery_plan
      prior_recovery == context.prior_recovery_context
      summaries == [i \in 1..Len(prior_recovery) |-> Summary(prior_recovery[i])]
  IN  <<"storyboard", "Diagnoses: ">> \o diagnoses_text
        \o <<"\n", "Medications: ">> \o medications_text \o <<"\n">>
        \o (IF recovery_plan # NoPlan
              THEN <<"Today's recovery milestone (Day ", ToString(recovery_plan.day), "): ",
                     recovery_plan.title, "Milestone label: ">>
                   \o OrElse(context.recovery_milestone, <<recovery_plan.title>>)
              ELSE <<>>)
        \o (IF prior_recovery # <<>>
              THEN <<"Previous recovery context that must be referenced for continuity:">>
                   \o JoinSep(<<"; ">>, summaries)
              ELSE <<>>)

PromptIdle ==
  /\ q_pc = "idle"
  /\ body = RequestFields(NoDay, None)
  /\ snapshot = NoSnapshot
  /\ payload = Pending
  /\ prompt = <<>>

\* The body is validated against VideoGenerationRequest.
Validate ==
  /\ q_pc = "validate"
  /\ q_pc' = IF Accepts(body) THEN "payload" ELSE "rejected"
  /\ UNCHANGED <<body, snapshot, payload, prompt, planVars, scriptVars, ckVars,
                 storeVars, genVars, videoVars, storageVars, keyVars, svcVars>>

\* prompt_payload = _context_to_prompt_payload(context, request)
ContextToPromptPayload ==
  /\ q_pc = "payload"
  /\ payload' = context_to_prompt_payload(epic_snapshot(snapshot), body)
  /\ q_pc' = IF payload'.kind = "raise" THEN "failed" ELSE "build"
  /\ UNCHANGED <<body, snapshot, prompt, planVars, scriptVars, ckVars,
                 storeVars, genVars, videoVars, storageVars, keyVars, svcVars>>

\* prompt = await llm_service.build_prompt(prompt_payload)
BuildPrompt ==
  /\ q_pc = "build"
  /\ prompt' = build_prompt(payload)
  /\ q_pc' = "done"
  /\ UNCHANGED <<body, snapshot, payload, planVars, scriptVars, ckVars,
                 storeVars, genVars, videoVars, storageVars, keyVars, svcVars>>

-----------------------------------------------------------------------------
(* From the script to the reuse lookup: LLMService.request_script and the  *)
(* case key of generate_video                                              *)

\* Longest completion text, in symbols.
MaxText == 3

\* The symbols a completion text is made of: a blank, a word, and whole JSON
\* documents (two objects, the empty object, a list).
MappingDocuments == {"{\"intro\": \"i\"}", "{\"content\": \"c\"}", "{}"}
JsonDocuments == MappingDocuments \cup {"[1]"}
TextSymbols == {" ", "oops"} \cup JsonDocuments

\* message.content: None, or a text
Contents == {None} \cup SeqsUpTo(TextSymbols, MaxText)

\* The dict a JSON object document stands for.
DictOf(doc) ==
  CASE doc = "{\"intro\": \"i\"}" -> [intro |-> <<"i">>]
    [] doc = "{\"content\": \"c\"}" -> [content |-> <<"c">>]
    [] OTHER -> [k \in {} |-> <<>>]

JSONDecodeError == [kind |-> "raise", exc |-> "JSONDecodeError"]

\* json.loads(text): blanks around the one document are skipped; no document,
\* a word, or anything after the document is a JSONDecodeError.
json_loads(text) ==
  LET t == Strip(text)
  IN  IF Len(t) = 1 /\ t[1] \in JsonDocuments
        THEN IF t[1] \in MappingDocuments
               THEN [kind |-> "dict", value |-> DictOf(t[1])]
               ELSE [kind |-> "other"]
        ELSE JSONDecodeError

\* dict.setdefault replacing a value that is there.
setdefault_Overwrite(d, key, value) ==
  [k \in DOMAIN d \cup {key} |-> IF k = key THEN value ELSE d[k]]

\* d.setdefault(key, value), as the dict it leaves
setdefault(d, key, value) ==
  IF key \in DOMAIN d THEN d
  ELSE [k \in DOMAIN d \cup {key} |-> IF k = key THEN value ELSE d[k]]

\* request_script from `text = ... content or ""` on.
request_script(content) ==
  LET text == Strip(OrElse(content, <<>>))
      parsed == json_loads(text)
  IN  IF parsed.kind = "dict" THEN setdefault(parsed.value, "content", text)
      ELSE [content |-> text]

ScriptIdle ==
  /\ r_pc = "idle"
  /\ llm_content = None
  /\ script = Pending

\* await self._client.chat.completions.create(...): it returns a completion
\* with the content, or raises (an API error, no choices).
Completion ==
  /\ r_pc = "call"
  /\ \E returned \in BOOLEAN : r_pc' = IF returned THEN "parse" ELSE "failed"
  /\ UNCHANGED <<llm_content, script, planVars, promptVars, ckVars,
                 storeVars, genVars, videoVars, storageVars, keyVars, svcVars>>

\* The rest of request_script.
ParseScript ==
  /\ r_pc = "parse"
  /\ script' = request_script(llm_content)
  /\ r_pc' = "case_key"
  /\ UNCHANGED <<llm_content, planVars, promptVars, ckVars,
                 storeVars, genVars, videoVars, storageVars, keyVars, svcVars>>

\* generate_video goes on: the case key, then the reuse lookup unless the
\* request forces a regeneration.
AfterScript ==
  /\ r_pc = "case_key"
  /\ \E force_regenerate \in BOOLEAN :
       r_pc' = IF force_regenerate THEN "video_service" ELSE "reuse_check"
  /\ UNCHANGED <<llm_content, script, planVars, promptVars, ckVars,
                 storeVars, genVars, videoVars, storageVars, keyVars, svcVars>>

\* The users rows fetch_patient_context can return for a doctor: the Supabase
\* table is read with select("*"), so a row may carry a specialty.
DoctorRecords ==
  {[email |-> e, specialty |-> v] :
     e \in {"doc", "doc2"}, v \in {None, <<"cardio">>, <<"neuro">>, <<"general">>}}
PatientRecords == {[email |-> e] : e \in {"pat", "pat2"}}

KeyedRequests ==
  {[diagnosis_code |-> d, procedure_code |-> <<"b">>, recovery_milestone |-> m] :
     d \in {<<"a">>, <<"b">>}, m \in {None, <<"m">>}}

\* The case key computed with the doctor's email in place of the specialty.
generate_case_key_ByEmail(request, doctor) ==
  compute_case_key(request.diagnosis_code, request.procedure_code,
                   request.recovery_milestone, <<doctor.email>>)

\* case_key = llm_service.compute_case_key(...) of generate_video
generate_case_key(request, doctor) ==
  compute_case_key(request.diagnosis_code, request.procedure_code,
                   request.recovery_milestone, doctor.specialty)

CaseKeyIdle ==
  /\ ck_in = <<>>
  /\ ck_out = <<>>

\* Two requests with the same attributes reach their case key, each with the
\* records the store returned for it.
ComputeRequestKeys ==
  /\ ck_in # <<>>
  /\ ck_out = <<>>
  /\ ck_out' = <<generate_case_key(ck_in.request, ck_in.doctors[1]),
                 generate_case_key(ck_in.request, ck_in.doctors[2])>>
  /\ UNCHANGED <<ck_in, planVars, promptVars, scriptVars,
                 storeVars, genVars, videoVars, storageVars, keyVars, svcVars>>

\* No request is being prepared.
FrontIdle ==
  /\ PlanIdle
  /\ PromptIdle
  /\ ScriptIdle
  /\ CaseKeyIdle

-----------------------------------------------------------------------------
(* Specifications                                                          *)

StoreIdle ==
  /\ reuse_case_enabled = TRUE
  /\ patient_files = <<>>
  /\ now = 0
  /\ found = [key |-> K1, res |-> NoRow]

GenIdle ==
  /\ pc = [p \in Requests |-> "idle"]
  /\ req = [p \in Requests |-> NoRequest]
  /\ case_key = [p \in Requests |-> <<>>]
  /\ miss = [p \in Requests |-> FALSE]
  /\ resp = [p \in Requests |-> NoResponse]
  /\ seeded = 0
  /\ after = [p \in Requests |-> {}]

VideoIdle ==
  /\ v_pc = "idle"
  /\ http_outcome = "none"
  /\ sdk_videos = TRUE
  /\ via = "none"
  /\ job_id = 0
  /\ jobs = 0
  /\ attempt = 0
  /\ status_log = [j \in JobIds |-> <<>>]
  /\ sleeps = [j \in JobIds |-> 0]
  /\ poll_result = [j \in JobIds |-> NoResult]
  /\ cv_result = NoResult
  /\ tempfiles = {}
  /\ cancelled = FALSE

\* Nothing is persisted and no key is computed.
RestIdle ==
  /\ db_use_supabase = FALSE
  /\ StorageIdle
  /\ SvcIdle
  /\ KeyIdle
  /\ FrontIdle

\* The store on its own: saves and lookups in any order, the clock advancing.
InitStore ==
  /\ reuse_case_enabled \in BOOLEAN
  /\ patient_files = <<>>
  /\ now = 0
  /\ found = [key |-> K1, res |-> NoRow]
  /\ GenIdle
  /\ VideoIdle
  /\ RestIdle

NextStore == Tick \/ SaveVideoMetadata \/ FindReusableVideo

SpecStore == InitStore /\ [][NextStore]_vars

\* The file URL of the n-th row stored before the first request.
SeedUrl(n) == IF n % 2 = 1 THEN "u1" ELSE "u2"

\* The tables a sequence of at most n saves can leave behind.
RECURSIVE Tables(_)
Tables(n) ==
  IF n = 0 THEN {<<>>}
  ELSE LET T == Tables(n - 1)
       IN  T \cup {InsertRow(t, SeedUrl(Len(t) + 1), k, ts) :
                     t \in {x \in T : Len(x) = n - 1}, k \in Keys, ts \in 0..1}

Sorted(t) == \A i \in 1..Len(t) - 1 : t[i].created_at <= t[i + 1].created_at

\* Concurrent generate requests against a store earlier requests have filled.
InitGen ==
  /\ reuse_case_enabled \in BOOLEAN
  /\ patient_files \in {t \in Tables(MaxSeed) : Sorted(t)}
  /\ now = 1
  /\ found = [key |-> K1, res |-> NoRow]
  /\ pc = [p \in Requests |-> "idle"]
  /\ req = [p \in Requests |-> NoRequest]
  /\ case_key = [p \in Requests |-> <<>>]
  /\ miss = [p \in Requests |-> FALSE]
  /\ resp = [p \in Requests |-> NoResponse]
  /\ seeded = Len(patient_files)
  /\ after = [p \in Requests |-> {}]
  /\ VideoIdle
  /\ RestIdle

NextGen ==
  \E p \in Requests :
    \/ Submit(p)
    \/ FetchContext(p)
    \/ RequestScript(p)
    \/ ReuseCheck(p)
    \/ GetVideoService(p)

SpecGen == InitGen /\ [][NextGen]_vars

\* create_video has not been called; the client may or may not offer `videos`.
VideoStart ==
  /\ v_pc = "idle"
  /\ http_outcome = "none"
  /\ sdk_videos \in BOOLEAN
  /\ via = "none"
  /\ job_id = 0
  /\ jobs = 0
  /\ attempt = 0
  /\ status_log = [j \in JobIds |-> <<>>]
  /\ sleeps = [j \in JobIds |-> 0]
  /\ poll_result = [j \in JobIds |-> NoResult]
  /\ cv_result = NoResult
  /\ tempfiles = {}
  /\ cancelled = FALSE

\* One create_video call against an arbitrary provider.
InitVideo ==
  /\ StoreIdle
  /\ GenIdle
  /\ VideoStart
  /\ RestIdle

NextVideo ==
  CreateVideo \/ HttpSubmit \/ SdkCreate \/ Poll \/ Sleep \/ Download \/ MockVideo

SpecVideo == InitVideo /\ [][NextVideo]_vars

\* create_video before its one poll loop: called with a client that has no
\* `videos` (the loop is the HTTP job's), or at the SDK fallback after the
\* POST failed with a 5xx or a network error (the loop is the SDK job's).
PollStart ==
  /\ sdk_videos \in BOOLEAN
  /\ v_pc = IF sdk_videos THEN "sdk_create" ELSE "idle"
  /\ http_outcome \in IF sdk_videos THEN {"5xx", "network_error"} ELSE {"none"}
  /\ via = "none"
  /\ job_id = 0
  /\ jobs = 0
  /\ attempt = 0
  /\ status_log = [j \in JobIds |-> <<>>]
  /\ sleeps = [j \in JobIds |-> 0]
  /\ poll_result = [j \in JobIds |-> NoResult]
  /\ cv_result = NoResult
  /\ tempfiles = {}
  /\ cancelled = FALSE

InitPoll ==
  /\ StoreIdle
  /\ GenIdle
  /\ PollStart
  /\ RestIdle

\* One create_video call that is not abandoned: every status request is
\* answered or fails (the HTTP request has timeout=30.0) and every sleep ends,
\* so the coroutine takes its next step whenever it has one.
SpecPoll == InitPoll /\ [][NextVideo]_vars /\ WF_vars(NextVideo)

\* One create_video call whose calling task may be cancelled during polling.
NextCancel == NextVideo \/ Cancel

SpecCancel == InitVideo /\ [][NextCancel]_vars

\* The request followed to the provider: the plain one.
GenerationBody == Body("pat", <<"a">>, FALSE)

\* generate_video at its call of create_video (videos.py line 100), holding a
\* video service, over an empty table: from there to the response.
InitPipeline ==
  /\ StoreIdle
  /\ LET r == GenerationBody IN
       /\ req = [p \in Requests |-> IF p = 1 THEN r ELSE NoRequest]
       /\ case_key = [p \in Requests |->
            IF p = 1 THEN compute_case_key(r.diagnosis_code, r.procedure_code,
                                           r.recovery_milestone,
                                           DoctorSpecialty(r.doctor_email))
            ELSE <<>>]
  /\ pc = [p \in Requests |-> IF p = 1 THEN "create_video" ELSE "idle"]
  /\ miss = [p \in Requests |-> p = 1]
  /\ resp = [p \in Requests |-> NoResponse]
  /\ seeded = 0
  /\ after = [p \in Requests |-> {}]
  /\ VideoStart
  /\ db_use_supabase \in BOOLEAN
  /\ StorageIdle
  /\ SvcIdle
  /\ KeyIdle
  /\ FrontIdle

NextPipeline ==
  \/ NextVideo
  \/ StorageFetch
  \/ StorageUpload
  \/ StorageWrite
  \/ \E p \in Requests :
       \/ VideoReturned(p)
       \/ UploadReturned(p)
       \/ SaveAndRespond(p)

SpecPipeline == InitPipeline /\ [][NextPipeline]_vars

\* upload_from_url on its own: calls with any reference the provider client
\* can return, the temporary files being those earlier downloads left.
InitPersist ==
  /\ StoreIdle
  /\ GenIdle
  /\ v_pc = "idle"
  /\ http_outcome = "none"
  /\ sdk_videos = TRUE
  /\ via = "none"
  /\ job_id = 0
  /\ jobs = 0
  /\ attempt = 0
  /\ status_log = [j \in JobIds |-> <<>>]
  /\ sleeps = [j \in JobIds |-> 0]
  /\ poll_result = [j \in JobIds |-> NoResult]
  /\ cv_result = NoResult
  /\ tempfiles \in SUBSET {TempFile(j) : j \in JobIds}
  /\ cancelled = FALSE
  /\ db_use_supabase \in BOOLEAN
  /\ StorageIdle
  /\ SvcIdle
  /\ KeyIdle
  /\ FrontIdle

NextPersist == Persist \/ StorageFetch \/ StorageUpload \/ StorageWrite

SpecPersist == InitPersist /\ [][NextPersist]_vars

\* compute_case_key applied to two argument lists that differ in at most one
\* field.
InitKey ==
  /\ StoreIdle
  /\ GenIdle
  /\ VideoIdle
  /\ db_use_supabase = FALSE
  /\ StorageIdle
  /\ SvcIdle
  /\ key_in \in {pair \in ArgumentLists \X ArgumentLists :
                    Cardinality(Changed(pair[1], pair[2])) <= 1}
  /\ key_out = <<>>
  /\ FrontIdle

NextKey == ComputeCaseKeys

SpecKey == InitKey /\ [][NextKey]_vars

\* The two lookups of recovery_plan applied to a day, in either order.
InitPlan ==
  /\ StoreIdle
  /\ GenIdle
  /\ VideoIdle
  /\ db_use_supabase = FALSE
  /\ StorageIdle
  /\ SvcIdle
  /\ KeyIdle
  /\ day \in DayInputs
  /\ plan = Pending
  /\ prior = <<Pending>>
  /\ labels = NoLabels
  /\ PromptIdle
  /\ ScriptIdle
  /\ CaseKeyIdle

NextPlan == GetPlanForDay \/ GetPriorPlans

SpecPlan == InitPlan /\ [][NextPlan]_vars

\* One posted body, with the snapshot row the store holds for the patient,
\* from validation to the prompt.
InitPrompt ==
  /\ StoreIdle
  /\ GenIdle
  /\ VideoIdle
  /\ db_use_supabase = FALSE
  /\ StorageIdle
  /\ SvcIdle
  /\ KeyIdle
  /\ PlanIdle
  /\ q_pc = "validate"
  /\ body \in PostedBodies
  /\ snapshot \in Snapshots
  /\ payload = Pending
  /\ prompt = <<>>
  /\ ScriptIdle
  /\ CaseKeyIdle

NextPrompt == Validate \/ ContextToPromptPayload \/ BuildPrompt

SpecPrompt == InitPrompt /\ [][NextPrompt]_vars

\* One request at its request_script call, for any completion content.
InitScript ==
  /\ StoreIdle
  /\ GenIdle
  /\ VideoIdle
  /\ db_use_supabase = FALSE
  /\ StorageIdle
  /\ SvcIdle
  /\ KeyIdle
  /\ PlanIdle
  /\ PromptIdle
  /\ r_pc = "call"
  /\ llm_content \in Contents
  /\ script = Pending
  /\ CaseKeyIdle

NextScript == Completion \/ ParseScript \/ AfterScript

SpecScript == InitScript /\ [][NextScript]_vars

\* Two requests with the same attributes and any records behind them.
InitCaseKey ==
  /\ StoreIdle
  /\ GenIdle
  /\ VideoIdle
  /\ db_use_supabase = FALSE
  /\ StorageIdle
  /\ SvcIdle
  /\ KeyIdle
  /\ PlanIdle
  /\ PromptIdle
  /\ ScriptIdle
  /\ ck_in \in [request : KeyedRequests,
                doctors : DoctorRecords \X DoctorRecords,
                patients : PatientRecords \X PatientRecords]
  /\ ck_out = <<>>

NextCaseKey == ComputeRequestKeys

SpecCaseKey == InitCaseKey /\ [][NextCaseKey]_vars

\* Requests of different patients and doctors, for different recovery days,
\* whose attributes give one case key ("A" and "a" are one diagnosis code to
\* the key).
ReuseBody(patient, doctor, diagnosis, recovery_day) ==
  [doctor_email |-> doctor, patient_email |-> patient,
   diagnosis_code |-> diagnosis, procedure_code |-> <<"b">>,
   recovery_milestone |-> None, recovery_day |-> recovery_day,
   force_regenerate |-> FALSE]

ReuseBodies ==
  {ReuseBody("pat", "doc", <<"a">>, NoDay), ReuseBody("pat2", "doc", <<"a">>, NoDay),
   ReuseBody("pat2", "doc2", <<"A">>, IntDay(3)), ReuseBody("pat", "doc2", <<"a">>, IntDay(3))}

\* save_video_metadata: the row with the patient it was saved for.
SavedRow(table, patient, key, ts) ==
  Append(table, [id |-> Len(table) + 1, file_type |-> "video",
                 file_url |-> SeedUrl(Len(table) + 1), case_key |-> key,
                 created_at |-> ts, patient_email |-> patient])

\* The tables at most n generations for these patients can leave behind.
RECURSIVE SavedTables(_)
SavedTables(n) ==
  IF n = 0 THEN {<<>>}
  ELSE LET T == SavedTables(n - 1)
       IN  T \cup {SavedRow(t, pt, k, ts) :
                     t \in {x \in T : Len(x) = n - 1},
                     pt \in {"pat", "pat2"}, k \in Keys, ts \in 0..1}

\* Requests with one case key at their reuse lookup, over one table that no
\* step changes.
InitReuse ==
  /\ reuse_case_enabled \in BOOLEAN
  /\ patient_files \in {t \in SavedTables(MaxSeed) : Sorted(t)}
  /\ now = 1
  /\ found = [key |-> K1, res |-> NoRow]
  /\ req \in [Requests -> ReuseBodies]
  /\ case_key = [p \in Requests |->
       compute_case_key(req[p].diagnosis_code, req[p].procedure_code,
                        req[p].recovery_milestone, DoctorSpecialty(req[p].doctor_email))]
  /\ pc = [p \in Requests |-> "reuse_check"]
  /\ miss = [p \in Requests |-> FALSE]
  /\ resp = [p \in Requests |-> NoResponse]
  /\ seeded = Len(patient_files)
  /\ after = [p \in Requests |-> {}]
  /\ VideoIdle
  /\ RestIdle

NextReuse == \E p \in Requests : ReuseCheck(p)

SpecReuse == InitReuse /\ [][NextReuse]_vars

\* A sequence of requests, each looking up its day and attaching its
\* milestone label to the plan it got.
NextSchedule == NextPlan \/ AttachLabel \/ NextRequest

SpecSchedule == InitPlan /\ [][NextSchedule]_vars

\* Requests handled concurrently and one after another, each with the
\* service objects made for it.
InitServices ==
  /\ StoreIdle
  /\ GenIdle
  /\ VideoIdle
  /\ db_use_supabase \in BOOLEAN
  /\ StorageIdle
  /\ SvcIdle
  /\ KeyIdle
  /\ FrontIdle

NextServices == \E p \in Requests : ServiceStep(p)

SpecServices == InitServices /\ [][NextServices]_vars

-----------------------------------------------------------------------------
(* Claims about reuse (SpecGen) and the store (SpecStore)                  *)

\* The request reached the reuse decision: context and script were obtained.
Decided(p) == case_key[p] # <<>>

\* Indices of the video rows stored under the case key of request p.
RowsOf(p) ==
  {i \in 1..Len(patient_files) :
     patient_files[i].file_type = "video" /\ patient_files[i].case_key = case_key[p]}

\* Request p leaves the reuse lookup as a reuse hit: it is answered at once
\* with reused=true and the URL and id of a stored row of its case key, and
\* the step writes no row and starts no provider call.
ReuseHitStep(p) ==
  /\ pc'[p] = "done"
  /\ resp'[p].kind = "ok"
  /\ resp'[p].reused
  /\ resp'[p].case_key = case_key[p]
  /\ \E i \in RowsOf(p) : /\ resp'[p].video_url = patient_files[i].file_url
                          /\ resp'[p].metadata_id = patient_files[i].id
  /\ patient_files' = patient_files
  /\ UNCHANGED videoVars

\* C1 as stated: every request with force_regenerate=false whose case key has
\* a stored video row leaves the lookup as a reuse hit (reused=true with that
\* row's URL and id; no provider call, storage write or metadata insert).
C1_Original ==
  [][\A p \in Requests :
       (pc[p] = "reuse_check" /\ pc'[p] # "reuse_check"
        /\ ~req[p].force_regenerate /\ RowsOf(p) # {}) => ReuseHitStep(p)]_vars

\* C1 amended: the same, for a service whose reuse_case_enabled flag is set.
C1_ReuseHit ==
  [][\A p \in Requests :
       (pc[p] = "reuse_check" /\ pc'[p] # "reuse_check" /\ reuse_case_enabled
        /\ ~req[p].force_regenerate /\ RowsOf(p) # {}) => ReuseHitStep(p)]_vars

C1_Witness ==
  \E p \in Requests :
    /\ pc[p] = "done" /\ ~req[p].force_regenerate /\ reuse_case_enabled
    /\ resp[p].kind = "ok" /\ resp[p].reused /\ RowsOf(p) # {}

\* C2: on a store without a row for the case key, request A
\* (force_regenerate=false) generates and stores exactly one row, and request
\* B, arriving after A was answered with the same attributes, is answered
\* reused=true with A's video URL.
C2_ReuseScenario ==
  \A a, b \in Requests :
    ( /\ a # b /\ a \in after[b]
      /\ pc[a] = "done" /\ pc[b] = "done"
      /\ Decided(a) /\ Decided(b)
      /\ ~req[a].force_regenerate /\ ~req[b].force_regenerate
      /\ req[a].diagnosis_code = req[b].diagnosis_code
      /\ req[a].procedure_code = req[b].procedure_code
      /\ req[a].recovery_milestone = req[b].recovery_milestone
      /\ reuse_case_enabled
      /\ \A i \in 1..seeded : patient_files[i].case_key # case_key[a] )
    => /\ resp[a].kind = "ok" /\ ~resp[a].reused
       /\ Cardinality(RowsOf(a)) = 1
       /\ resp[b].kind = "ok" /\ resp[b].reused
       /\ resp[b].video_url = resp[a].video_url

\* C3: a request with force_regenerate=true never performs the reuse lookup
\* and, also when a row for its case key exists, generates, inserts a new row
\* and is answered reused=false.
C3_ForceRegenerate ==
  \A p \in Requests :
    (pc[p] = "done" /\ Decided(p) /\ req[p].force_regenerate)
    => /\ ~miss[p]
       /\ resp[p].kind = "ok" /\ ~resp[p].reused
       /\ Len(patient_files) > seeded
       /\ \E i \in RowsOf(p) : i > seeded /\ resp[p].metadata_id = patient_files[i].id

\* C4: two concurrent requests with the same never-seen case key and
\* force_regenerate=false that both passed the lookup with "not found" both
\* generate: two metadata rows for the one case key.
C4_BothGenerate ==
  \A a, b \in Requests :
    ( /\ a # b /\ a \notin after[b] /\ b \notin after[a]
      /\ pc[a] = "done" /\ pc[b] = "done"
      /\ miss[a] /\ miss[b] /\ case_key[a] = case_key[b]
      /\ ~req[a].force_regenerate /\ ~req[b].force_regenerate
      /\ \A i \in 1..seeded : patient_files[i].case_key # case_key[a] )
    => /\ resp[a].kind = "ok" /\ ~resp[a].reused
       /\ resp[b].kind = "ok" /\ ~resp[b].reused
       /\ Cardinality(RowsOf(a)) = 2

\* The row saved last among the video rows of a case key (NoRow: none).
LastSaved(key) ==
  LET S == {i \in 1..Len(patient_files) :
              patient_files[i].file_type = "video" /\ patient_files[i].case_key = key}
  IN  IF S = {} THEN NoRow
      ELSE patient_files[CHOOSE i \in S : \A j \in S : j <= i]

\* C5: every find_reusable_video call returns the row saved most recently
\* among the video rows of the case key, also when saves share a created_at
\* second, and returns nothing exactly when there is no such row.
C5_MostRecent ==
  [][(reuse_case_enabled /\ found' # found)
       => found'.res = LastSaved(found'.key)]_vars

-----------------------------------------------------------------------------
(* Claims about the video provider client (SpecVideo)                      *)

TerminalStatus == {"completed", "failed"}
NonTerminalStatus == {"queued", "processing", "unrecognized"}

\* No status response of job j was completed or failed.
NeverTerminal(j) ==
  \A i \in 1..Len(status_log[j]) : status_log[j][i].status \notin TerminalStatus

\* The last status response of job j.
LastResponse(j) == status_log[j][Len(status_log[j])]

\* C7: when the provider accepts a job and never reports completed or failed
\* within the polling ceiling, create_video ends by raising a timeout error
\* that names the job id, not by returning a result.
C7_TimeoutRaised ==
  ( /\ v_pc = "done"
    /\ \A j \in JobIds : NeverTerminal(j)
    /\ \E j \in JobIds : poll_result[j].kind = "raise"
                         /\ poll_result[j].exc = "TimeoutError" )
  => /\ cv_result.kind = "raise"
     /\ cv_result.exc = "TimeoutError"
     /\ \E j \in 1..jobs : cv_result.detail = <<"Video generation timed out for job", j>>

\* C8: when a poll response reports status failed, create_video ends by
\* raising an error that carries the provider's error detail and is not the
\* timeout error; it returns no result.
C8_FailureRaised ==
  ( /\ v_pc = "done"
    /\ \E j \in JobIds : status_log[j] # <<>> /\ LastResponse(j).status = "failed" )
  => /\ cv_result.kind = "raise"
     /\ cv_result.exc # "TimeoutError"
     /\ \E j \in JobIds :
          /\ status_log[j] # <<>> /\ LastResponse(j).status = "failed"
          /\ Len(cv_result.detail) = 2
          /\ cv_result.detail[2] =
               (IF LastResponse(j).error = "None" THEN "Unknown error"
                ELSE LastResponse(j).error)

\* A step in which job j received a status response: none follows a completed
\* or failed one; completed ends the polling (the content is fetched next);
\* failed ends it with an error carrying the provider's message; any other
\* status leads to the sleep.
C9_StatusStep ==
  \A j \in JobIds :
    (Len(status_log'[j]) > Len(status_log[j])) =>
      LET r == status_log'[j][Len(status_log'[j])]
      IN  /\ status_log[j] # <<>> => LastResponse(j).status \notin TerminalStatus
          /\ r.status = "completed" => v_pc' = "download"
          /\ r.status = "failed" =>
               /\ poll_result'[j] =
                    [kind |-> "raise", exc |-> "RuntimeError",
                     detail |-> <<"Video generation failed",
                                  IF r.error = "None" THEN "Unknown error" ELSE r.error>>]
               /\ v_pc' \notin {"poll", "sleep", "download"}
          /\ r.status \in NonTerminalStatus =>
               /\ v_pc' = "sleep"
               /\ poll_result'[j] = [kind |-> "none"]

\* The sleep lasts one interval, and the same job is polled again while
\* attempts remain.
C9_SleepStep ==
  (v_pc = "sleep" /\ v_pc' # "sleep") =>
    /\ sleeps'[job_id] = sleeps[job_id] + 1
    /\ attempt + 1 < max_attempts => (v_pc' = "poll" /\ job_id' = job_id)

\* The polling of a completed job ends with a success result carrying the
\* video reference.
CompletedSucceeds ==
  /\ poll_result'[job_id].kind = "return"
  /\ poll_result'[job_id].status = "completed"
  /\ poll_result'[job_id].video_url = TempFile(job_id)
  /\ cv_result' = poll_result'[job_id]

\* The polling of a completed job ends with the error of the content download.
CompletedDownloadFails ==
  /\ poll_result'[job_id] =
       [kind |-> "raise", exc |-> "RuntimeError",
        detail |-> <<"Failed to download video content">>]
  /\ v_pc' \notin {"poll", "sleep", "download", "done"}

\* C9 as stated: each status response is handled as above, and completed
\* always ends with the success result.
C9_Original ==
  [][/\ C9_StatusStep
     /\ C9_SleepStep
     /\ (v_pc = "download" /\ v_pc' # "download" /\ status_log[job_id] # <<>>)
          => CompletedSucceeds]_vars

\* C9 amended: completed ends the polling with the success result when the
\* content download succeeds and with the download's error when it fails.
C9_StatusHandling ==
  [][/\ C9_StatusStep
     /\ C9_SleepStep
     /\ (v_pc = "download" /\ v_pc' # "download" /\ status_log[job_id] # <<>>)
          => (CompletedSucceeds \/ CompletedDownloadFails)]_vars

C9_Witness ==
  \E j \in JobIds :
    /\ Len(status_log[j]) = max_attempts
    /\ sleeps[j] = max_attempts - 1
    /\ LastResponse(j).status = "completed"
    /\ poll_result[j].kind = "return"
    /\ \E k \in JobIds : /\ k # j /\ status_log[k] # <<>>
                         /\ LastResponse(k).status = "failed"
                         /\ poll_result[k].kind = "raise"

\* C10: every run of the poll loop without a completed or failed response
\* ends with the timeout error naming the job id, whatever mix of other
\* statuses and failed requests occurred, also on the last attempt.
C10_AlwaysTimeout ==
  \A j \in JobIds :
    (poll_result[j].kind # "none" /\ NeverTerminal(j))
    => /\ poll_result[j].kind = "raise"
       /\ poll_result[j].exc = "TimeoutError"
       /\ poll_result[j].detail = <<"Video generation timed out for job", j>>

-----------------------------------------------------------------------------
(* C11: failed status requests                                             *)

\* Some status request of job j failed before its last response.
HadRequestError(j) ==
  \E i \in 1..Len(status_log[j]) - 1 : status_log[j][i].status = "request_error"

\* The ceiling of the poll loop was reached for job j.
CeilingReached(j) == Len(status_log[j]) = max_attempts

\* A status request that fails while attempts remain does not end the job:
\* the loop goes to its sleep and the job has no outcome yet.
C11_RetryStep ==
  \A j \in JobIds :
    ( /\ Len(status_log'[j]) > Len(status_log[j])
      /\ status_log'[j][Len(status_log'[j])].status = "request_error"
      /\ Len(status_log'[j]) < max_attempts )
    => /\ v_pc' = "sleep"
       /\ job_id' = j
       /\ poll_result'[j] = [kind |-> "none"]

\* C11 as stated: a failed status request with attempts remaining is retried,
\* a completed response after it yields success, and polling ends
\* unsuccessfully only on a failed status or at the ceiling.
C11_Original ==
  /\ [][C11_RetryStep /\ C9_SleepStep]_vars
  /\ [](\A j \in JobIds :
          /\ (HadRequestError(j) /\ LastResponse(j).status = "completed"
              /\ poll_result[j].kind # "none")
               => poll_result[j].kind = "return"
          /\ poll_result[j].kind = "raise"
               => (LastResponse(j).status = "failed" \/ CeilingReached(j)))

\* C11 amended: the completed response yields success when the download of
\* the content succeeds, and polling ends unsuccessfully only on a failed
\* status, a failed download of the completed video, or at the ceiling.
C11_RetryWithinBudget ==
  /\ [][C11_RetryStep /\ C9_SleepStep]_vars
  /\ [](\A j \in JobIds :
          /\ (HadRequestError(j) /\ LastResponse(j).status = "completed"
              /\ poll_result[j].kind # "none")
               => \/ poll_result[j].kind = "return"
                  \/ poll_result[j] =
                       [kind |-> "raise", exc |-> "RuntimeError",
                        detail |-> <<"Failed to download video content">>]
          /\ poll_result[j].kind = "raise"
               => \/ LastResponse(j).status = "failed"
                  \/ CeilingReached(j)
                  \/ /\ LastResponse(j).status = "completed"
                     /\ poll_result[j].detail = <<"Failed to download video content">>)

C11_Witness ==
  \E j \in JobIds :
    /\ Len(status_log[j]) = 2
    /\ status_log[j][1].status = "request_error"
    /\ status_log[j][2].status = "completed"
    /\ sleeps[j] = 1
    /\ poll_result[j].kind = "return"
    /\ cv_result = poll_result[j]

-----------------------------------------------------------------------------
(* C12, C13: the job submission                                            *)

\* The submission POST was answered with a non-success status or with a body
\* that is not the expected JSON object with a job id.
SubmissionRejected == http_outcome \in {"401", "403", "400", "5xx", "not_json", "no_id"}

\* C12: a non-success HTTP status or a malformed response to the submission
\* makes create_video fail with an error; it is never swallowed or turned into
\* a successful result.
C12_SubmissionFatal ==
  (v_pc = "done" /\ SubmissionRejected) => cv_result.kind = "raise"

\* C13: one create_video call submits at most one generation job, on every
\* path.
C13_AtMostOneJob == jobs <= 1

-----------------------------------------------------------------------------
(* C14: missing patient or doctor record                                   *)

\* C14: when the patient or the doctor record is absent, generate fails with
\* a not-found (4xx) error, before the script is requested and before any
\* reuse lookup or write.
C14_NotFound ==
  \A p \in Requests :
    ( /\ pc[p] = "done"
      /\ (req[p].patient_email \notin Users \/ req[p].doctor_email \notin Users) )
    => /\ resp[p].kind = "error"
       /\ resp[p].status \in 400..499
       /\ ~Decided(p)
       /\ ~miss[p]
       /\ Len(patient_files) = seeded


-----------------------------------------------------------------------------
(* Claims about the end of a generation (SpecPipeline), about               *)
(* upload_from_url (SpecPersist) and about compute_case_key (SpecKey)       *)

\* The requests that got past their create_video call.
PastCreateVideo(p) == pc[p] \in {"upload", "save", "done"}

\* C15: when create_video returns a result without a video reference, the
\* request ends in an HTTP 502 error, no upload_from_url call was made, no file
\* or bucket object was written and no metadata row was inserted.
C15_NoReference ==
  \A p \in Requests :
    (PastCreateVideo(p) /\ cv_result.kind = "return" /\ cv_result.video_url = NoUrl)
      => /\ pc[p] = "done"
         /\ resp[p].kind = "error"
         /\ resp[p].status = 502
         /\ uploads = 0
         /\ local_files = {}
         /\ bucket_objects = {}
         /\ patient_files = <<>>

C15_Witness ==
  \E p \in Requests :
    /\ pc[p] = "done"
    /\ cv_result.kind = "return"
    /\ cv_result.video_url = NoUrl
    /\ resp[p].kind = "error"

\* The upload_from_url call has ended after its upload to the bucket raised.
FellBack == s_pc = "done" /\ db_use_supabase /\ ~s_use_supabase

\* C16: when the upload to the bucket raised, upload_from_url returns (it does
\* not raise) a local URL, the bytes are in a local file, and that file is the
\* one the /storage mount serves under the URL.
C16_Fallback ==
  FellBack
    => /\ s_result.kind = "return"
       /\ s_result.url.kind = "local"
       /\ LocalFile(storage_dir, s_filename) \in local_files
       /\ StaticFile(s_result.url) = LocalFile(storage_dir, s_filename)

\* C17: an upload_from_url call that has ended returned a public URL, whether
\* its source was a remote URL or a temporary file of the provider client,
\* unless the remote server answered the download with an error status.
C17_BothShapes ==
  (/\ s_pc = "done"
   /\ s_source.kind \in {"remote", "tempfile"}
   /\ ~(s_result.kind = "raise" /\ s_result.exc = "HTTPStatusError"))
    => /\ s_result.kind = "return"
       /\ s_result.url.kind \in {"local", "bucket"}

\* C18: once a generate request has been answered successfully, no temporary
\* file written by the provider client exists any more.
C18_NoTempFileLeft ==
  \A p \in Requests :
    (pc[p] = "done" /\ resp[p].kind = "ok") => tempfiles = {}

\* The parts compute_case_key joins, as the key sees them: the placeholder for
\* a missing or empty value, blanks around milestone and specialty removed,
\* lower case.
Canonical(a) ==
  [diagnosis_code |-> Lower(OrElse(a.diagnosis_code, <<"unknown_diagnosis">>)),
   procedure_code |-> Lower(OrElse(a.procedure_code, <<"unknown_procedure">>)),
   recovery_milestone |->
     Lower(OrElse(Strip(OrElse(a.recovery_milestone, <<>>)), <<"no_milestone">>)),
   doctor_specialty |->
     Lower(OrElse(Strip(OrElse(a.doctor_specialty, <<>>)), <<"general">>))]

\* C20 as stated: two argument lists that differ in exactly one field have
\* different digests.
C20_Original ==
  (key_out # <<>> /\ Cardinality(Changed(key_in[1], key_in[2])) = 1)
    => key_out[1] # key_out[2]

\* C20: two argument lists that differ in exactly one field, in a value that
\* is still different once it is put in canonical form, have different digests.
C20_OneFieldChanged ==
  (/\ key_out # <<>>
   /\ Cardinality(Changed(key_in[1], key_in[2])) = 1
   /\ Canonical(key_in[1]) # Canonical(key_in[2]))
    => key_out[1] # key_out[2]

C20_Witness ==
  /\ key_out # <<>>
  /\ Changed(key_in[1], key_in[2]) = {"doctor_specialty"}
  /\ Canonical(key_in[1]) # Canonical(key_in[2])
  /\ key_out[1] # key_out[2]

-----------------------------------------------------------------------------
(* Claims about the case key (SpecKey, SpecCaseKey), the recovery plan      *)
(* (SpecPlan), the prompt (SpecPrompt) and the script (SpecScript)          *)

\* The digest of four parts joined by colons and lower-cased.
DigestOf(p1, p2, p3, p4) ==
  Sha256Hex(Lower(p1 \o <<":">> \o p2 \o <<":">> \o p3 \o <<":">> \o p4))

\* A field as given, or its sentinel when it is missing or empty.
AsGiven(v, sentinel) == IF v = None \/ v = <<>> THEN sentinel ELSE v

\* A field without the blanks around it, or its sentinel when nothing is left.
Trimmed(v, sentinel) ==
  IF v = None THEN sentinel ELSE IF Strip(v) = <<>> THEN sentinel ELSE Strip(v)

\* C21 as stated: the digest is that of the lower-cased colon-joined string in
\* which missing and empty fields are their sentinels and every present field
\* is used as given.
C21_Original ==
  key_out # <<>> =>
    LET a == key_in[1]
    IN  key_out[1] = DigestOf(AsGiven(a.diagnosis_code, <<"unknown_diagnosis">>),
                              AsGiven(a.procedure_code, <<"unknown_procedure">>),
                              AsGiven(a.recovery_milestone, <<"no_milestone">>),
                              AsGiven(a.doctor_specialty, <<"general">>))

\* C21: the same, with milestone and specialty taken without the blanks around
\* them (a milestone or specialty of blanks only counting as empty).
C21_Digest ==
  key_out # <<>> =>
    LET a == key_in[1]
    IN  key_out[1] = DigestOf(AsGiven(a.diagnosis_code, <<"unknown_diagnosis">>),
                              AsGiven(a.procedure_code, <<"unknown_procedure">>),
                              Trimmed(a.recovery_milestone, <<"no_milestone">>),
                              Trimmed(a.doctor_specialty, <<"general">>))

C21_Witness ==
  /\ key_out # <<>>
  /\ key_in[1].diagnosis_code = <<>>
  /\ key_in[1].procedure_code = None
  /\ key_in[1].recovery_milestone = <<" ", "m">>
  /\ key_in[1].doctor_specialty = <<"g">>
  /\ key_out[1] = Sha256Hex(<<"unknown_diagnosis", ":", "unknown_procedure", ":", "m", ":", "g">>)

\* C22 as stated: two requests with the same diagnosis code, procedure code and
\* milestone have the same case key, whatever records were fetched for them.
C22_Original == ck_out # <<>> => ck_out[1] = ck_out[2]

\* The specialty of a doctor record as the key sees it.
KeySpecialty(doctor) ==
  Canonical(Arguments(<<>>, <<>>, None, doctor.specialty)).doctor_specialty

\* C22: two requests with the same diagnosis code, procedure code and
\* milestone, whose doctors have the same specialty as the key sees it, have
\* the same case key, whatever else the records hold.
C22_SameSpecialty ==
  (ck_out # <<>> /\ KeySpecialty(ck_in.doctors[1]) = KeySpecialty(ck_in.doctors[2]))
    => ck_out[1] = ck_out[2]

C22_Witness ==
  /\ ck_out # <<>>
  /\ ck_in.doctors[1].email # ck_in.doctors[2].email
  /\ ck_in.doctors[1].specialty = None
  /\ ck_in.doctors[2].specialty = <<"general">>
  /\ ck_in.patients[1] # ck_in.patients[2]
  /\ ck_out[1] = ck_out[2]

\* The days of the schedule.
ScheduleDays == {1, 3, 5, 7, 10, 14, 17, 21, 24, 30}

\* C23: get_plan_for_day(d) is the entry of day d for every d of the schedule
\* and None for every other d; it is never the entry of another day.
C23_ExactEntry ==
  plan # Pending =>
    IF day \in ScheduleDays
      THEN plan # NoPlan /\ plan.day = day /\ plan.title = PlanTitle(day)
      ELSE plan = NoPlan

C23_Witness ==
  /\ day = 2
  /\ plan = NoPlan
  /\ prior # <<Pending>>

\* C24: get_prior_plans(day) holds the entries of exactly the schedule days
\* below day, in ascending order, day itself never among them; for day 10
\* these are the entries of days 1, 3, 5, 7.
C24_PriorPlans ==
  prior # <<Pending>> =>
    /\ {prior[i].day : i \in 1..Len(prior)} = {d \in ScheduleDays : d < day}
    /\ \A i \in 1..Len(prior) : prior[i].title = PlanTitle(prior[i].day)
    /\ \A i \in 1..Len(prior) - 1 : prior[i].day < prior[i + 1].day
    /\ day = 10 => [i \in 1..Len(prior) |-> prior[i].day] = <<1, 3, 5, 7>>

C24_Witness ==
  /\ day = 10
  /\ prior # <<Pending>>
  /\ Len(prior) = 4

\* The prompt has the symbol s.
Contains(s) == \E i \in 1..Len(prompt) : prompt[i] = s

\* The names the snapshot row offers under a column: the non-empty values of
\* its entries.
NamesOffered(column, field) ==
  IF snapshot.kind = "None" \/ snapshot[column].kind # "list" THEN {}
  ELSE {snapshot[column].entries[i][field] : i \in 1..Len(snapshot[column].entries)}
         \ {None, <<>>}

\* A label of the prompt with nothing after it on its line.
EmptyRendering(label) ==
  \E i \in 1..Len(prompt) - 1 : prompt[i] = label /\ prompt[i + 1] = "\n"

\* C25: every accepted request gets a prompt, whatever the snapshot; the prompt
\* has "Not specified" when the snapshot offers no diagnosis name and "No
\* active medications listed" when it offers no medication name, and no list
\* is rendered empty.
C25_Fallbacks ==
  q_pc \in {"build", "done", "failed"} =>
    /\ q_pc # "failed"
    /\ q_pc = "done" =>
         /\ NamesOffered("diagnoses", "display") = {} => Contains("Not specified")
         /\ NamesOffered("medications", "name") = {} => Contains("No active medications listed")
         /\ ~EmptyRendering("Diagnoses: ")
         /\ ~EmptyRendering("Medications: ")

TodayBlock == Contains("Today's recovery milestone (Day ")
PriorBlock == Contains("Previous recovery context that must be referenced for continuity:")

\* The request carries a recovery day from 1 to 30.
DayRequested == body.recovery_day.kind = "int" /\ body.recovery_day.value \in 1..30

\* C26 as stated: the prompt has both blocks when the request carries a
\* recovery day from 1 to 30, and neither block when it carries none.
C26_Original ==
  q_pc = "done" =>
    /\ DayRequested => TodayBlock /\ PriorBlock
    /\ body.recovery_day = NoDay => ~TodayBlock /\ ~PriorBlock

\* C26: for a recovery day from 1 to 30 the prompt has the today's-milestone
\* block exactly when the day is a schedule day and the prior-context block
\* exactly when a schedule day lies below it; without a recovery day it has
\* neither block.
C26_Blocks ==
  q_pc = "done" =>
    /\ DayRequested =>
         /\ TodayBlock <=> body.recovery_day.value \in ScheduleDays
         /\ PriorBlock <=> body.recovery_day.value > 1
    /\ body.recovery_day = NoDay => ~TodayBlock /\ ~PriorBlock

C26_Witness ==
  /\ q_pc = "done"
  /\ body.recovery_day = IntDay(2)
  /\ ~TodayBlock
  /\ PriorBlock

\* The completion text, and the JSON value it parses to.
RawText == IF llm_content = None THEN <<>> ELSE llm_content
ParsedText == json_loads(RawText)

\* C27 as stated: request_script returns the parsed mapping when the text
\* parses as one, and a mapping whose single field content is the raw text
\* when the text is present but parses as nothing or as no mapping.
C27_Original ==
  script # Pending =>
    /\ r_pc # "failed"
    /\ IF ParsedText.kind = "dict" THEN script = ParsedText.value
       ELSE RawText # <<>> => script = [content |-> RawText]

\* C27: request_script returns the parsed mapping, with a field content added
\* that holds the text without the blanks around it when the mapping has no
\* such field; for a text that is no mapping it returns the single field
\* content holding the text without the blanks around it; it raises no error.
C27_ParsedOrWrapped ==
  script # Pending =>
    /\ r_pc # "failed"
    /\ IF ParsedText.kind = "dict"
         THEN /\ DOMAIN script = DOMAIN ParsedText.value \cup {"content"}
              /\ \A k \in DOMAIN ParsedText.value : script[k] = ParsedText.value[k]
              /\ "content" \notin DOMAIN ParsedText.value => script.content = Strip(RawText)
         ELSE script = [content |-> Strip(RawText)]

C27_Witness ==
  /\ script # Pending
  /\ llm_content = <<"{\"content\": \"c\"}", " ">>
  /\ script = [content |-> <<"c">>]

\* C28: when the completion's content is empty or absent, the request has
\* failed once request_script is over: it gets no case key and reaches
\* neither the reuse lookup nor the video service.
C28_EmptyFails ==
  (llm_content \in {None, <<>>} /\ r_pc \notin {"idle", "call", "parse"})
    => r_pc = "failed"

\* C30: a request that got past validation carries no recovery day or one
\* from 1 to 30.
C30_DayBounded ==
  q_pc \in {"payload", "build", "done", "failed"}
    => body.recovery_day = NoDay \/ DayRequested


\* C29: once the task is cancelled during polling, create_video has ended
\* with CancelledError (no retry, no fallback result, no further job), and no
\* status request is issued afterwards.
C29_CancelStops ==
  [][cancelled' =>
        /\ v_pc' = "cancelled"
        /\ cv_result' = Raise("CancelledError", <<>>)
        /\ UNCHANGED <<status_log, jobs, sleeps, poll_result>>]_vars

C29_Witness ==
  /\ cancelled
  /\ v_pc = "cancelled"
  /\ status_log[job_id] # <<>>
  /\ sleeps[job_id] > 0


-----------------------------------------------------------------------------
(* Claims about the poll loop's end (SpecPoll), the generation path        *)
(* (SpecGen, SpecPipeline), storage names and shared state                 *)

\* The poll loop is running for the current job.
Polling == v_pc \in {"poll", "sleep"}

\* C31: whatever the provider answers, no job gets more than max_attempts
\* status requests, and a poll loop that is running comes to its end.
C31_PollTerminates ==
  /\ [](\A j \in JobIds : Len(status_log[j]) <= max_attempts)
  /\ [](Polling => <>(~Polling))

C31_Witness ==
  /\ job_id # 0
  /\ Len(status_log[job_id]) = max_attempts
  /\ \A i \in 1..max_attempts :
       status_log[job_id][i].status \notin {"completed", "failed"}
  /\ \E i \in 1..max_attempts : status_log[job_id][i].status = "request_error"
  /\ poll_result[job_id] = TimedOut(job_id)


\* C32: a request that obtained its context and script and is no reuse hit is
\* not answered before create_video is called: among the steps modelled up to
\* that call, it can only be waiting for the video service or calling it.
C32_ReachesProvider ==
  \A p \in Requests :
    (Decided(p) /\ (miss[p] \/ req[p].force_regenerate))
      => pc[p] \in {"video_service", "create_video"}


\* The provider reported a job as completed, at submission or at a status
\* request.
ProviderCompleted ==
  \/ http_outcome = "completed"
  \/ \E j \in JobIds :
       status_log[j] # <<>> /\ status_log[j][Len(status_log[j])].status = "completed"

\* The URL is one upload_from_url returned for bytes it stored.
PersistedUrl(u) ==
  /\ u.kind \in {"local", "bucket"}
  /\ u.name.uuid \in 1..uploads
  /\ u.kind = "local" => LocalFile(storage_dir, u.name) \in local_files
  /\ u.kind = "bucket" => u.name \in bucket_objects

\* C33: every metadata row generate saved has a file URL that a successful
\* upload_from_url returned, for a video the provider reported as completed.
C33_RowsFromCompleted ==
  \A i \in 1..Len(patient_files) :
    /\ PersistedUrl(patient_files[i].file_url)
    /\ ProviderCompleted
    /\ ~cv_result.mock


\* The names under which bytes are stored, locally or in the bucket.
StoredNames == bucket_objects \cup {f.name : f \in local_files}

\* C34: every upload_from_url call takes a name under which nothing is stored
\* and which differs from the name of the call before it, also for the same
\* case key; and the step that stores the bytes, in the bucket or locally,
\* stores them where nothing was stored.
C34_FreshNames ==
  [][/\ uploads' # uploads =>
          /\ s_filename' \notin StoredNames
          /\ uploads > 0 => s_filename' # s_filename
     /\ (s_pc = "upload" /\ s_filename \in bucket_objects') => s_filename \notin bucket_objects
     /\ (s_pc = "write" /\ s_pc' = "done") =>
          LocalFile(storage_dir, s_filename) \notin local_files]_vars

C34_Witness ==
  /\ uploads = 2
  /\ s_pc = "done"
  /\ \E f, g \in StoredNames : f # g /\ f.stem = g.stem


\* What request q sees of its service objects.
ServiceView(q) == <<connected[Instance(q)], backend[Instance(q)]>>

\* C35: a step of one request leaves the service objects of every other
\* request as they were, and the backend an upload tries first is the one the
\* configuration selects, whatever earlier or concurrent uploads fell back to.
C35_NoSharedState ==
  [][\A p \in Requests :
       ServiceStep(p) =>
         /\ \A q \in Requests \ {p} : ServiceView(q)' = ServiceView(q)
         /\ first_tried'[p] \in
              {"none", IF db_use_supabase THEN "supabase" ELSE "local"}]_vars

C35_Witness ==
  /\ db_use_supabase
  /\ first_tried[1] = "supabase" /\ backend[Instance(1)] = "local"
  /\ first_tried[2] = "supabase"
  /\ connected[Instance(1)] /\ ~connected[Instance(2)]

\* C36: after any sequence of requests the table holds no milestone label:
\* it is as the module defines it, and so are the entries the lookups return.
C36_TableUnchanged ==
  /\ \A d \in PlanDays : labels[d] = None
  /\ plan \notin {Pending, NoPlan} =>
       \A f \in DOMAIN PLAN_DEFINITIONS[day] : plan[f] = PLAN_DEFINITIONS[day][f]
  /\ prior # <<Pending>> => prior = get_prior_plans(day)

C36_Witness ==
  /\ plan \notin {Pending, NoPlan}
  /\ "milestone_label" \in DOMAIN plan
  /\ labels[day] = None
  /\ prior # <<Pending>>


\* C37: with reuse_case_enabled false, every lookup comes back empty whatever
\* rows the table holds: a request that went through it missed, no response
\* says reused, and a request answered with a video has inserted a row.
C37_ReuseDisabled ==
  ~reuse_case_enabled =>
    \A p \in Requests :
      /\ (Decided(p) /\ ~req[p].force_regenerate /\ pc[p] # "reuse_check") => miss[p]
      /\ resp[p].kind = "ok" =>
           /\ ~resp[p].reused
           /\ \E i \in RowsOf(p) : i > seeded /\ resp[p].metadata_id = patient_files[i].id

C37_Witness ==
  /\ ~reuse_case_enabled
  /\ \E p \in Requests :
       /\ miss[p]
       /\ ~req[p].force_regenerate
       /\ RowsOf(p) # {}


\* Request p has left the reuse lookup.
Looked(p) == pc[p] # "reuse_check"

\* The rows that share the latest creation second among those of a key.
NewestRows(key) == FetchNewest(patient_files, key)

\* C38: over one table, two requests with one case key that went through the
\* lookup got the same reused flag; a reused answer carries the URL and id of a
\* newest row of the key, so both carry the same URL and id when one row is
\* the newest, whatever the patient, doctor and recovery day of the requests
\* and whoever the row was saved for.
C38_KeyOnly ==
  \A p, q \in Requests :
    (Looked(p) /\ Looked(q) /\ case_key[p] = case_key[q]) =>
      /\ miss[p] = miss[q]
      /\ resp[p].kind = resp[q].kind
      /\ ~miss[p] =>
           /\ resp[p].reused /\ resp[q].reused
           /\ \E r \in NewestRows(case_key[p]) :
                resp[p].video_url = r.file_url /\ resp[p].metadata_id = r.id
           /\ Cardinality(NewestRows(case_key[p])) = 1 =>
                /\ resp[p].video_url = resp[q].video_url
                /\ resp[p].metadata_id = resp[q].metadata_id

C38_Witness ==
  /\ Looked(1) /\ Looked(2)
  /\ req[1].patient_email = "pat" /\ req[2].patient_email = "pat2"
  /\ req[1].doctor_email # req[2].doctor_email
  /\ req[1].recovery_day # req[2].recovery_day
  /\ resp[1].kind = "ok" /\ resp[1].reused
  /\ resp[2].kind = "ok" /\ resp[2].reused
  /\ resp[1].metadata_id = resp[2].metadata_id
  /\ patient_files[resp[1].metadata_id].patient_email = "pat"
  /\ \A i \in 1..Len(patient_files) : patient_files[i].patient_email = "pat"



\* C39: a request whose body was accepted and whose context was fetched goes
\* on to its script call: once it is past the prompt payload and the prompt it
\* stands at request_script (videos.py line 80), which it calls (once) before
\* the case key and the reuse lookup.
C39_ScriptCallFollows ==
  q_pc \notin {"validate", "rejected", "payload", "build"} => q_pc = "done"

====
